---- MODULE Spec2Model ----
(***************************************************************************)
(* Model of the task-orchestration core of oka-ai:                         *)
(*   src/src/autonomous-v3.ts  (planner/executor/critic validation, the    *)
(*   install escalator, the replan merge and the runAutonomousV3 loop).    *)
(*                                                                         *)
(* Text values that the code transforms (task ids, titles, dependency      *)
(* names, install commands) are sequences of one-character strings, so     *)
(* that trim, lower-case and the regular-expression replacements are       *)
(* computed.  A fixed message of the code is a text of one atom.           *)
(***************************************************************************)
EXTENDS Integers, Sequences, FiniteSets, TLC

(***************************************************************************)
(* Bounds of the model.                                                    *)
(***************************************************************************)
\* longest task list of a raw planner output
MaxRawTasks == 2
\* largest retry_budget_per_node a run is configured with
MaxRetryBudget == 1
\* largest replan_budget_per_run a run is configured with
MaxReplanBudget == 1
\* largest max_tasks_per_plan a run is configured with
MaxTasksPerPlan == 2

\* the calls of processNextBackgroundTask the model can hold at once
MaxCalls == 2

\* the background tasks that are enqueued
MaxEnqueued == 2

(***************************************************************************)
(* Text helpers.                                                           *)
(***************************************************************************)
\* a value that is not a JavaScript string (undefined, a number, an object)
NotString == <<"<not-a-string>">>

IsString(v) == v # NotString

\* an optional text that is absent
Undefined == <<"<undefined>">>

\* F(v), with v evaluated once, before F is
Apply(F(_), v) == CHOOSE r \in {F(x) : x \in {v}} : TRUE

\* a fixed message of the code, as a one-atom text
Text(message) == <<message>>

Whitespace == {" "}

LowerAlnum ==
  {"a", "b", "c", "d", "e", "f", "g", "h", "i", "j", "k", "l", "m", "n", "o",
   "p", "q", "r", "s", "t", "u", "w", "x", "y", "z", "1", "2", "3", "4"}

\* String.prototype.toLowerCase, one character
LowerChar(c) ==
  CASE c = "A" -> "a"
    [] c = "B" -> "b"
    [] c = "N" -> "n"
    [] c = "S" -> "s"
    [] OTHER -> c

toLowerCase(s) == [i \in 1..Len(s) |-> LowerChar(s[i])]

RECURSIVE TrimLeft(_)
TrimLeft(s) ==
  IF s # <<>> /\ Head(s) \in Whitespace THEN TrimLeft(Tail(s)) ELSE s

RECURSIVE TrimRight(_)
TrimRight(s) ==
  IF s # <<>> /\ s[Len(s)] \in Whitespace
    THEN TrimRight(SubSeq(s, 1, Len(s) - 1))
    ELSE s

\* String.prototype.trim
trim(s) == Apply(TrimRight, TrimLeft(s))

\* s.replace(/[^a-z0-9]+/g, "-"): every maximal run of other characters
\* becomes one "-"
RECURSIVE ReplaceNonAlnumRuns(_, _)
ReplaceNonAlnumRuns(s, inRun) ==
  IF s = <<>> THEN <<>>
  ELSE IF Head(s) \in LowerAlnum
         THEN <<Head(s)>> \o ReplaceNonAlnumRuns(Tail(s), FALSE)
         ELSE IF inRun
                THEN ReplaceNonAlnumRuns(Tail(s), TRUE)
                ELSE <<"-">> \o ReplaceNonAlnumRuns(Tail(s), TRUE)

RECURSIVE StripLeadingDashes(_)
StripLeadingDashes(s) ==
  IF s # <<>> /\ Head(s) = "-" THEN StripLeadingDashes(Tail(s)) ELSE s

RECURSIVE StripTrailingDashes(_)
StripTrailingDashes(s) ==
  IF s # <<>> /\ s[Len(s)] = "-"
    THEN StripTrailingDashes(SubSeq(s, 1, Len(s) - 1))
    ELSE s

\* s.replace(/^-+|-+$/g, "")
StripDashes(s) == StripTrailingDashes(StripLeadingDashes(s))

startsWith(s, p) == Len(s) >= Len(p) /\ SubSeq(s, 1, Len(p)) = p

TaskPrefix == <<"t", "a", "s", "k", "-">>

\* the decimal text of a small positive number
DigitText(n) ==
  CASE n = 1 -> <<"1">>
    [] n = 2 -> <<"2">>
    [] n = 3 -> <<"3">>
    [] OTHER -> <<"4">>

\* `task-${n}`
TaskN(n) == TaskPrefix \o DigitText(n)

FALLBACK_TASK_ID == TaskN(1)

\* lines 118-120 of sanitizeTaskId, on the normalized text
PrefixTaskId(normalized, index) ==
  IF normalized = <<>> THEN TaskN(index + 1)
  ELSE IF ~startsWith(normalized, TaskPrefix) THEN TaskPrefix \o normalized
  ELSE normalized

\* sanitizeTaskId(raw, index); index is 0-based as in the code
sanitizeTaskId(raw, index) ==
  Apply(LAMBDA normalized : PrefixTaskId(normalized, index),
        Apply(StripDashes,
              Apply(LAMBDA lowered : ReplaceNonAlnumRuns(lowered, FALSE),
                    Apply(toLowerCase, trim(raw)))))

\* front with last added unless front holds it already
AppendNew(front, last) ==
  IF \E i \in 1..Len(front) : front[i] = last THEN front ELSE Append(front, last)

\* items.indexOf(x) === index filter: keep the first occurrence of each value
RECURSIVE Dedup(_)
Dedup(s) ==
  IF s = <<>> THEN <<>>
  ELSE AppendNew(Dedup(SubSeq(s, 1, Len(s) - 1)), s[Len(s)])

\* Array.prototype.slice(0, n)
SliceTo(s, n) == SubSeq(s, 1, IF n < Len(s) THEN n ELSE Len(s))

\* a JSON array value and a value that is no array (Array.isArray fails)
JsArray(items) == [isArray |-> TRUE, items |-> items]

NotArray == [isArray |-> FALSE, items |-> <<>>]

\* typeof value === "string" ? value.trim() : ""
TrimItem(v) == IF IsString(v) THEN trim(v) ELSE <<>>

\* clampStringArray(values, maxItems)
clampStringArray(values, maxItems) ==
  IF ~values.isArray THEN <<>>
  ELSE SliceTo(
         SelectSeq([i \in 1..Len(values.items) |-> TrimItem(values.items[i])],
                   LAMBDA v : v # <<>>),
         maxItems)

(***************************************************************************)
(* Completion texts and parseJsonObject.  A completion is described by how *)
(* it parses (form) and by the JSON value it carries (kind, fields).       *)
(*   form "json"     JSON.parse(input) succeeds                            *)
(*   form "wrapped"  only the region from the first { to the last } parses *)
(*   form "garbage"  neither parses                                        *)
(*   kind "object" | "scalar" | "null"   the parsed JSON value             *)
(***************************************************************************)
NullValue == [kind |-> "null"]

parseJsonObject(input) ==
  IF input.form = "json" THEN input.value
  ELSE IF input.form = "wrapped" THEN input.value
  ELSE NullValue

\* the negation of: !raw || typeof raw !== "object"
IsObject(raw) == raw.kind = "object"

(***************************************************************************)
(* validatePlannerOutput                                                   *)
(***************************************************************************)
\* a Map as the list of its set() calls; the last call for a key counts
EmptyMap == <<>>

MapHas(m, k) == \E i \in 1..Len(m) : m[i][1] = k

MapGet(m, k) ==
  m[CHOOSE i \in 1..Len(m) :
      m[i][1] = k /\ \A j \in (i + 1)..Len(m) : m[j][1] # k][2]

\* Map.prototype.set
MapSet(m, k, v) == Append(m, <<k, v>>)

FallbackPlan(summary, goal) ==
  [summary |-> summary,
   tasks |-> << [id |-> FALLBACK_TASK_ID, title |-> goal, depends_on |-> <<>>] >>]

\* line 172: the raw id of the i-th task, i counted from 1 here
RawIdOf(task, i) == IF IsString(task.id) THEN trim(task.id) ELSE TaskN(i)

\* lines 175-198: the loop body once the id is known to be new;
\* acc = [uniqueIds, idMap, draftTasks]
DraftAdd(acc, rawId, id, title, task) ==
  [uniqueIds |-> acc.uniqueIds \cup {id},
   idMap |-> MapSet(MapSet(acc.idMap, rawId, id), id, id),
   draftTasks |->
     IF title = <<>> THEN acc.draftTasks
     ELSE Append(acc.draftTasks,
                 [id |-> id, title |-> title,
                  raw_depends_on |-> clampStringArray(task.depends_on, 6)])]

\* DraftStep without the uniqueIds.has(id) test of line 174
DraftStepKeepingDuplicates(acc, rawId, id, task) ==
  DraftAdd(acc, rawId, id, TrimItem(task.title), task)

\* lines 173-174: a task whose sanitized id was seen before is skipped
DraftStep(acc, rawId, id, task) ==
  IF id \in acc.uniqueIds THEN acc
  ELSE DraftAdd(acc, rawId, id, TrimItem(task.title), task)

\* lines 171-173: rawId and id of the i-th task
DraftStepAt(acc, rawId, i, task) ==
  DraftStep(acc, rawId, sanitizeTaskId(rawId, i - 1), task)

\* the for loop of lines 170-198 over rawTasks[i..]
RECURSIVE DraftLoop(_, _, _)
DraftLoop(rawTasks, i, acc) ==
  IF i > Len(rawTasks) THEN acc
  ELSE Apply(LAMBDA next : DraftLoop(rawTasks, i + 1, next),
             DraftStepAt(acc, RawIdOf(rawTasks[i], i), i, rawTasks[i]))

\* line 205: idMap.get(sanitized) || null, NotString standing for null
ResolveSanitized(idMap, s) ==
  IF MapHas(idMap, s) THEN MapGet(idMap, s) ELSE NotString

\* lines 203-205
ResolveDependency(idMap, dependencyId) ==
  IF MapHas(idMap, dependencyId) THEN MapGet(idMap, dependencyId)
  ELSE ResolveSanitized(idMap, sanitizeTaskId(dependencyId, 0))

\* lines 201-209
ResolveDependencies(idMap, task) ==
  SelectSeq(
    Dedup(SelectSeq([k \in 1..Len(task.raw_depends_on) |->
                       ResolveDependency(idMap, task.raw_depends_on[k])],
                    LAMBDA d : d # NotString)),
    LAMBDA d : d # task.id)

\* lines 210-218
ResolveTask(idMap, task) ==
  [id |-> task.id, title |-> task.title,
   depends_on |-> ResolveDependencies(idMap, task)]

\* lines 200-240, on the result of the loop
PlanOfDraft(acc, goal, config) ==
  IF Len(acc.draftTasks) = 0
    THEN FallbackPlan("Fallback single-task plan because planner returned no valid tasks.", goal)
    ELSE [summary |-> "Task plan generated.",
          tasks |-> SliceTo([k \in 1..Len(acc.draftTasks) |->
                               ResolveTask(acc.idMap, acc.draftTasks[k])],
                            config.max_tasks_per_plan)]

\* line 165: Array.isArray(raw.tasks) ? raw.tasks : []
RawTasksOf(raw) == IF raw.tasks.isArray THEN raw.tasks.items ELSE <<>>

EmptyDraft == [uniqueIds |-> {}, idMap |-> EmptyMap, draftTasks |-> <<>>]

\* lines 171-172: rawTasks[i] is null, and reading task.id raises a TypeError
\* that nothing catches (the loop skips no index, so any null element does)
ThrowsTypeError(raw) ==
  /\ IsObject(raw)
  /\ \E i \in 1..Len(RawTasksOf(raw)) : RawTasksOf(raw)[i] = NullValue

validatePlannerOutput(raw, goal, config) ==
  IF ~IsObject(raw)
    THEN FallbackPlan("Fallback single-task plan due to invalid planner output.", goal)
    ELSE Apply(LAMBDA acc : PlanOfDraft(acc, goal, config),
               DraftLoop(RawTasksOf(raw), 1, EmptyDraft))

(***************************************************************************)
(* validateExecutorOutput, validateCriticOutput                            *)
(***************************************************************************)
NO_DEPENDENCY_SENTINELS ==
  { <<"n", "o", "n", "e">>,
    <<"n", "o">>,
    <<"n", "/", "a">>,
    <<"n", "a">>,
    <<"n", "u", "l", "l">>,
    <<"n", "i", "l">>,
    <<"f", "a", "l", "s", "e">>,
    <<"n", "o", "t", "_", "a", "p", "p", "l", "i", "c", "a", "b", "l", "e">>,
    <<"n", "o", "t", "-", "a", "p", "p", "l", "i", "c", "a", "b", "l", "e">>,
    <<"n", "o", "_", "d", "e", "p", "e", "n", "d", "e", "n", "c", "y">>,
    <<"n", "o", "-", "d", "e", "p", "e", "n", "d", "e", "n", "c", "y">>,
    <<"n", "o", " ", "m", "i", "s", "s", "i", "n", "g", " ",
      "d", "e", "p", "e", "n", "d", "e", "n", "c", "y">> }

\* NormalizeTrimmedName without the sentinel test of line 136
NormalizeTrimmedNameKeepingSentinels(trimmed) ==
  IF trimmed = <<>> THEN Undefined ELSE trimmed

\* lines 134-137, on the trimmed name; Undefined stands for null
NormalizeTrimmedName(trimmed) ==
  IF trimmed = <<>> THEN Undefined
  ELSE IF toLowerCase(trimmed) \in NO_DEPENDENCY_SENTINELS THEN Undefined
  ELSE trimmed

\* normalizeDependencyName(name)
normalizeDependencyName(name) ==
  IF ~IsString(name) THEN Undefined ELSE NormalizeTrimmedName(trim(name))

\* missing_dependency: undefined
NoDependency == [present |-> FALSE]

\* lines 258-274, given missingDependencyName
DependencyHint(dep, missingDependencyName) ==
  IF missingDependencyName # Undefined
    THEN [present |-> TRUE,
          name |-> missingDependencyName,
          install_command |->
            IF IsString(dep.install_command)
              THEN trim(dep.install_command) ELSE Undefined,
          requires_root |-> dep.requires_root]
    ELSE NoDependency

\* lines 254-274
ValidDependency(dep) ==
  IF dep.kind = "object"
    THEN DependencyHint(dep, normalizeDependencyName(dep.name))
    ELSE NoDependency

\* lines 279-282
ValidSummary(summary) ==
  IF IsString(summary) /\ trim(summary) # <<>>
    THEN trim(summary)
    ELSE Text("Executor finished without summary.")

validateExecutorOutput(raw, taskId) ==
  IF ~IsObject(raw)
    THEN [task_id |-> taskId,
          status |-> "failed",
          result_summary |-> Text("Executor response was invalid JSON."),
          missing_dependency |-> NoDependency]
    ELSE [task_id |-> taskId,
          status |-> IF raw.status \in {"done", "blocked", "failed"}
                       THEN raw.status ELSE "failed",
          result_summary |-> ValidSummary(raw.result_summary),
          missing_dependency |-> ValidDependency(raw.missing_dependency)]

\* validateCriticOutput without the test of the verdict of lines 299-303
validateCriticOutputUnchecked(raw, taskId) ==
  IF ~IsObject(raw)
    THEN [task_id |-> taskId,
          verdict |-> "retry",
          issues |-> << Text("Critic response was invalid JSON.") >>]
    ELSE [task_id |-> taskId,
          verdict |-> raw.verdict,
          issues |-> clampStringArray(raw.issues, 8)]

validateCriticOutput(raw, taskId) ==
  IF ~IsObject(raw)
    THEN [task_id |-> taskId,
          verdict |-> "retry",
          issues |-> << Text("Critic response was invalid JSON.") >>]
    ELSE [task_id |-> taskId,
          verdict |-> IF raw.verdict \in {"pass", "retry", "replan", "block"}
                        THEN raw.verdict ELSE "retry",
          issues |-> clampStringArray(raw.issues, 8)]

(***************************************************************************)
(* The install escalator's decision                                        *)
(***************************************************************************)
\* \w of the regular expression, over the characters of the model
WordChars == LowerAlnum \cup {"A", "B", "N", "S", "_"}

\* a finished run of word characters, as a list of at most one word
RunAsWords(run) == IF run = <<>> THEN <<>> ELSE <<run>>

\* the maximal runs of word characters of a text, in order
RECURSIVE WordRuns(_, _)
WordRuns(s, run) ==
  IF s = <<>> THEN RunAsWords(run)
  ELSE IF Head(s) \in WordChars
         THEN WordRuns(Tail(s), Append(run, Head(s)))
         ELSE RunAsWords(run) \o WordRuns(Tail(s), <<>>)

\* the alternatives of /\b(sudo|apt(-get)?|yum|dnf|pacman|apk|brew|choco|winget)\b/i;
\* between word boundaries "apt-get" matches through its word "apt"
RootLevelWords ==
  { <<"s", "u", "d", "o">>,
    <<"a", "p", "t">>,
    <<"y", "u", "m">>,
    <<"d", "n", "f">>,
    <<"p", "a", "c", "m", "a", "n">>,
    <<"a", "p", "k">>,
    <<"b", "r", "e", "w">>,
    <<"c", "h", "o", "c", "o">>,
    <<"w", "i", "n", "g", "e", "t">> }

HasRootLevelWord(words) ==
  \E i \in 1..Len(words) : toLowerCase(words[i]) \in RootLevelWords

includesRootLevelInstall(command) == HasRootLevelWord(WordRuns(command, <<>>))

\* line 589: dependency.install_command || ""
CommandOf(dependency) ==
  IF dependency.install_command = Undefined THEN <<>>
  ELSE dependency.install_command

\* EscalatesCommand without the requires_root flag of line 590
EscalatesCommandIgnoringFlag(command, requiresRootFlag) ==
  command = <<>> \/ includesRootLevelInstall(command)

\* lines 590-591: !command || requiresRoot
EscalatesCommand(command, requiresRootFlag) ==
  command = <<>> \/ requiresRootFlag \/ includesRootLevelInstall(command)

\* lines 589-597 of attemptUserSpaceInstall: TRUE when the hint is escalated
\* without running anything, FALSE when the command is spawned
InstallEscalates(dependency) ==
  EscalatesCommand(CommandOf(dependency), dependency.requires_root)

(***************************************************************************)
(* State of one call of runAutonomousV3                                    *)
(***************************************************************************)
VARIABLES
  pc,             \* position of the run: "init", "planner", "select",
                  \* "executor", "install", "critic", "replanner", "finish",
                  \* "returned", or "threw" (the promise was rejected)
  config,         \* the AutonomousRuntimeConfig loaded for the run
  graph,          \* the in-memory ActiveTaskGraphState
  saved,          \* the graph snapshot file (last saveTaskGraph)
  ledger,         \* the run ledger file (see EmptyLedger)
  replanCount,    \* local replanCount
  iteration,      \* local loop counter
  maxIterations,  \* local maxIterations
  nextTask,       \* index in graph.nodes of the object nextTask refers to, 0 if none
  execution,      \* the validated executor record of the current attempt
  installReqs,    \* the escalation document, one record per appended entry
  shellCommand,   \* the install command the shell is running, Undefined if none
  plannerCalls,   \* planner completions requested (initial plan and replans)
  plannerRaw,     \* the planner completion of the initial plan, until the
                  \* loop takes its first step (it is not read afterwards)
  contextPack     \* the ContextPack in the prompt of the call awaited or of
                  \* the iteration under way: the constant that holds it and
                  \* the completion-service calls it has been given to

engineVars == <<pc, config, graph, saved, ledger, replanCount, iteration,
                maxIterations, nextTask, execution, installReqs, shellCommand,
                plannerCalls, plannerRaw, contextPack>>

(***************************************************************************)
(* State of the relay process around the engine: the background task       *)
(* queue and its worker                                                    *)
(***************************************************************************)
VARIABLES
  backgroundTasksFile,           \* the persisted queue: the tasks in file order
  backgroundWorkerRunning,       \* the module-level flag of the worker
  BACKGROUND_TASK_MAX_ATTEMPTS,  \* the attempt limit read from the environment
  calls,                         \* the calls of processNextBackgroundTask that
                                 \* passed the flag test and have not returned
  enqueueing,                    \* the enqueueBackgroundTask call in flight
  history                        \* per task id: engine runs started, runs that
                                 \* were rejected, runs that resolved,
                                 \* permanent-failure notifications sent, and
                                 \* whether enqueueBackgroundTask saved it

relayVars == <<backgroundTasksFile, backgroundWorkerRunning,
               BACKGROUND_TASK_MAX_ATTEMPTS, calls, enqueueing, history>>

(***************************************************************************)
(* The stores buildContextPack reads, and what its calls returned          *)
(***************************************************************************)
VARIABLES
  stores,   \* the checklist, facts, procedures, ledger and graph files and the
            \* context_pack limits of the configuration
  packs,    \* the ContextPacks returned so far, in call order
  now       \* the clock

contextVars == <<stores, packs, now>>

vars == <<engineVars, relayVars, contextVars>>

\* the goal text (message) of the run
Goal == Text("goal")

Null == <<"<null>">>

\* critic_issues of a node that never had any
NoIssues == << Undefined >>

NoRecord == [present |-> FALSE]

Max(a, b) == IF a >= b THEN a ELSE b

\* the node objects built from a validated plan (runAutonomousV3 and
\* mergeReplanIntoGraph build them alike)
NewNode(task) ==
  [id |-> task.id,
   title |-> task.title,
   status |-> "pending",
   depends_on |-> task.depends_on,
   retries |-> 0,
   critic_issues |-> NoIssues,
   result_summary |-> Undefined]

\* saveTaskGraph: the snapshot file is overwritten with the whole graph
saveTaskGraph(g) == g

\* The ledger file is held by its first record and its last LedgerWindow
\* records; the records between are not kept.
LedgerWindow == 2

EmptyLedger == [first |-> <<>>, tail |-> <<>>]

\* no ContextPack is held
NoContextPack == [built |-> "none", calls |-> 0]

\* lines 688, 756, 853: buildContextPack returns a pack into this constant
NewPack(constant) == [built |-> constant, calls |-> 0]

\* lines 689-690, 757-758, 810-811, 854-859: the pack is put in a prompt and
\* the prompt is sent to the completion service
InPrompt(pack) == [pack EXCEPT !.calls = pack.calls + 1]

LastOf(s, n) == IF Len(s) <= n THEN s ELSE SubSeq(s, Len(s) - n + 1, Len(s))

AppendRecord(l, record) ==
  [first |-> IF l.first = <<>> THEN <<record>> ELSE l.first,
   tail |-> LastOf(Append(l.tail, record), LedgerWindow)]

\* the message of a record whose message text is not kept
NoMessage == ""

\* appendRunLedgerEvent writing the file anew with its record alone
appendRunLedgerEventRewriting(l, event, taskId, status, message) ==
  AppendRecord(EmptyLedger, [event |-> event, task_id |-> taskId,
                             status |-> status, message |-> message])

\* appendRunLedgerEvent: one record at the end of the ledger file; of the
\* message texts only the verdict of a task.criticized record is kept
appendRunLedgerEvent(l, event, taskId, status, message) ==
  AppendRecord(l, [event |-> event, task_id |-> taskId, status |-> status,
                   message |-> message])

HasNode(nodes, id) == \E i \in 1..Len(nodes) : nodes[i].id = id

\* new Map(nodes.map(...)).get(id): the last node with this id
LastIndexOfId(nodes, id) ==
  CHOOSE i \in 1..Len(nodes) :
    nodes[i].id = id /\ \A j \in (i + 1)..Len(nodes) : nodes[j].id # id

\* byId.get(depId)?.status === "done"
DepDone(nodes, depId) ==
  HasNode(nodes, depId) /\ nodes[LastIndexOfId(nodes, depId)].status = "done"

DepsMet(nodes, i) ==
  \A k \in 1..Len(nodes[i].depends_on) : DepDone(nodes, nodes[i].depends_on[k])

\* Runnable without the depsMet test of lines 506-507
RunnableWhateverItNeeds(nodes, i) == nodes[i].status = "pending"

Runnable(nodes, i) == nodes[i].status = "pending" /\ DepsMet(nodes, i)

\* getNextRunnableTask finding nothing once a node is failed or blocked
getNextRunnableTaskUntilFailure(nodes) ==
  IF /\ \E i \in 1..Len(nodes) : Runnable(nodes, i)
     /\ \A i \in 1..Len(nodes) : nodes[i].status \notin {"failed", "blocked"}
    THEN CHOOSE i \in 1..Len(nodes) :
           Runnable(nodes, i) /\ \A j \in 1..(i - 1) : ~Runnable(nodes, j)
    ELSE 0

\* getNextRunnableTask: index of the first runnable node, 0 for null
getNextRunnableTask(nodes) ==
  IF \E i \in 1..Len(nodes) : Runnable(nodes, i)
    THEN CHOOSE i \in 1..Len(nodes) :
           Runnable(nodes, i) /\ \A j \in 1..(i - 1) : ~Runnable(nodes, j)
    ELSE 0

\* Completed keeping the pending nodes as well
CompletedOrPending(nodes) ==
  SelectSeq([i \in 1..Len(nodes) |-> [from |-> i, node |-> nodes[i]]],
            LAMBDA e : e.node.status \in {"done", "pending"})

\* line 639: the done nodes; "from" is the index of the old node object
Completed(nodes) ==
  SelectSeq([i \in 1..Len(nodes) |-> [from |-> i, node |-> nodes[i]]],
            LAMBDA e : e.node.status = "done")

\* lines 642-643: the plan's tasks whose id no done node has
FreshTasks(tasks, completed) ==
  SelectSeq(tasks, LAMBDA t : \A i \in 1..Len(completed) : completed[i].node.id # t.id)

\* lines 644-653: new node objects (from = 0)
NewEntries(tasks) ==
  [k \in 1..Len(tasks) |-> [from |-> 0, node |-> NewNode(tasks[k])]]

\* line 655
MergeWith(completed, tasks) ==
  completed \o Apply(NewEntries, FreshTasks(tasks, completed))

\* mergeReplanIntoGraph: the new node list
mergeReplanIntoGraph(g, plan) ==
  Apply(LAMBDA completed : MergeWith(completed, plan.tasks), Completed(g.nodes))

(***************************************************************************)
(* Inputs: what the completion service and the shell may answer            *)
(***************************************************************************)
RawTask(id, title, deps) == [id |-> id, title |-> title, depends_on |-> deps]

\* raw planner tasks: ids that collide after slugification ("a", " A"),
\* dependencies by raw id, a task without id or depends_on, a task without
\* title whose id is the fallback id after slugification
RawTaskPool ==
  { RawTask(<<"a">>, <<"x">>, JsArray(<<>>)),
    RawTask(<<"b">>, <<"y">>, JsArray(<< <<"a">> >>)),
    RawTask(<<" ", "A">>, <<"z">>, JsArray(<< <<"B">>, <<"a">> >>)),
    RawTask(NotString, <<"w">>, NotArray),
    RawTask(<<"1">>, <<" ">>, NotArray) }

\* all sequences over S of length at most n
RECURSIVE SeqsUpTo(_, _)
SeqsUpTo(S, n) ==
  IF n = 0 THEN {<<>>}
  ELSE SeqsUpTo(S, n - 1) \cup {Append(q, x) : q \in SeqsUpTo(S, n - 1), x \in S}

Completion(form, value) == [form |-> form, value |-> value]

Garbage == Completion("garbage", NullValue)

\* no completion held
NoCompletion == Completion("none", NullValue)

PlannerObject(rawTasks) == [kind |-> "object", tasks |-> JsArray(rawTasks)]

PlannerObjects ==
  {PlannerObject(ts) : ts \in SeqsUpTo(RawTaskPool, MaxRawTasks)}
    \cup {[kind |-> "object", tasks |-> NotArray]}

\* the answers of the planner: texts that do not parse, JSON values that are
\* no object, objects as plain JSON and, for one of them, wrapped in prose
PlannerCompletions ==
  {Garbage, Completion("json", [kind |-> "scalar"]), Completion("json", NullValue),
   Completion("wrapped", PlannerObject(<<>>)),
   Completion("json", PlannerObject(<< NullValue >>))}
    \cup {Completion("json", o) : o \in PlannerObjects}

InstallCommands ==
  { NotString,
    <<" ">>,
    <<"n", "p", "m", " ", "i">>,
    <<"S", "u", "d", "o", " ", "x">>,
    <<"a", "p", "t", "-", "g", "e", "t">>,
    <<"a", "p", "t", "x">>,
    <<"x", " ", "b", "r", "e", "w">> }

RawDependencies ==
  {[kind |-> "absent"], [kind |-> "null"], [kind |-> "scalar"]}
    \cup {[kind |-> "object", name |-> n, install_command |-> c, requires_root |-> r] :
            n \in {NotString, <<" ">>, <<"N", "o", "n", "e">>,
                   <<" ", "n", "/", "a", " ">>, <<"j", "q">>},
            c \in InstallCommands,
            r \in BOOLEAN}

ExecutorCompletions ==
  {Garbage, Completion("json", [kind |-> "scalar"])}
    \cup {Completion("json",
            [kind |-> "object", status |-> st, result_summary |-> rs,
             missing_dependency |-> d]) :
            st \in {"done", "blocked", "failed", "unknown"},
            rs \in {NotString, <<" ", "r">>},
            d \in RawDependencies}

CriticCompletions ==
  {Garbage, Completion("json", [kind |-> "scalar"])}
    \cup {Completion("json", [kind |-> "object", verdict |-> v, issues |-> i]) :
            v \in {"pass", "retry", "replan", "block", "unknown"},
            i \in {NotArray, JsArray(<< <<" ">>, <<"i", " ">> >>)}}

\* the configurations a run is started with
Configs(policies) ==
  [max_tasks_per_plan : 1..MaxTasksPerPlan,
   retry_budget_per_node : 0..MaxRetryBudget,
   replan_budget_per_run : 0..MaxReplanBudget,
   allow_external_mutation : policies]

\* the configuration where no run of the engine is followed
IdleConfigs ==
  [max_tasks_per_plan : {1},
   retry_budget_per_node : {0},
   replan_budget_per_run : {0},
   allow_external_mutation : {FALSE}]

\* the snapshot file before the run: DEFAULT_ACTIVE_TASK_GRAPH
DefaultGraph ==
  [status |-> "done", summary |-> "", nodes |-> <<>>, current_task_id |-> Null]

\* the default of BACKGROUND_TASK_MAX_ATTEMPTS
DefaultMaxAttempts == 2

\* no background task (the claimed task of a call that holds none)
NoTask == [id |-> 0, status |-> "none", attempts |-> 0, max_attempts |-> 0]

\* a slot of calls that holds no call
NoCall == [at |-> "idle", task |-> NoTask, queue |-> <<>>]

\* the relay before any request and any tick: an empty queue file
RelayInit(limits) ==
  /\ backgroundTasksFile = <<>>
  /\ backgroundWorkerRunning = FALSE
  /\ BACKGROUND_TASK_MAX_ATTEMPTS \in limits
  /\ calls = [c \in 1..MaxCalls |-> NoCall]
  /\ enqueueing = NoCall
  /\ history = <<>>

\* the stores of a process that never builds a ContextPack
NoStores ==
  [todos |-> <<>>, learnings |-> <<>>, procedures |-> <<>>, runLedger |-> <<>>,
   graph |-> [valid |-> FALSE, nodes |-> <<>>, updated_at |-> 0],
   context_pack |-> [max_relevant_facts |-> 0, max_related_episodes |-> 0,
                     max_procedures |-> 0]]

ContextInit(contents) ==
  /\ stores \in contents
  /\ packs = <<>>
  /\ now = 0

EngineInit(configs) ==
  /\ pc = "init"
  /\ config \in configs
  /\ graph = DefaultGraph
  /\ saved = DefaultGraph
  /\ ledger = EmptyLedger
  /\ replanCount = 0
  /\ iteration = 0
  /\ maxIterations = 0
  /\ nextTask = 0
  /\ execution = NoRecord
  /\ installReqs = <<>>
  /\ shellCommand = Undefined
  /\ plannerCalls = 0
  /\ plannerRaw = NoCompletion
  /\ contextPack = NoContextPack

\* a run of the engine alone: the relay and the context stores are at rest
InitWith(configs) ==
  /\ EngineInit(configs)
  /\ RelayInit({DefaultMaxAttempts})
  /\ ContextInit({NoStores})

Init == InitWith(Configs({FALSE}))

(***************************************************************************)
(* runAutonomousV3, cut at the calls it awaits                             *)
(***************************************************************************)
\* lines 667-690: the empty graph is saved, run.started is appended and the
\* planner completion is requested
Start ==
  /\ pc = "init"
  /\ graph' = [status |-> "planning", summary |-> "", nodes |-> <<>>,
               current_task_id |-> Null]
  /\ saved' = saveTaskGraph(graph')
  /\ ledger' = appendRunLedgerEvent(ledger, "run.started", Null, "ok", NoMessage)
  /\ contextPack' = InPrompt(NewPack("initialContextPack"))
  /\ plannerCalls' = plannerCalls + 1
  /\ pc' = "planner"
  /\ UNCHANGED <<relayVars, contextVars,
                 config, replanCount, iteration, maxIterations, nextTask,
                 execution, installReqs, shellCommand, plannerRaw>>

\* lines 693-704: the validated plan becomes the graph
PlannedGraph(g, planner) ==
  [g EXCEPT !.summary = planner.summary,
            !.nodes = [k \in 1..Len(planner.tasks) |-> NewNode(planner.tasks[k])],
            !.status = "executing"]

\* lines 719-722
MaxIterationsOf(nodeCount, cfg) ==
  Max(4, nodeCount * (cfg.retry_budget_per_node + cfg.replan_budget_per_run + 2))

\* lines 691-722: the planner's answer is validated and becomes the graph
Planned(planner) ==
  /\ graph' = PlannedGraph(graph, planner)
  /\ saved' = saveTaskGraph(graph')
  /\ ledger' = appendRunLedgerEvent(ledger, "plan.created", Null, "ok", NoMessage)
  /\ replanCount' = 0
  /\ maxIterations' = MaxIterationsOf(Len(graph'.nodes), config)
  /\ iteration' = 0
  /\ contextPack' = NoContextPack
  /\ pc' = "select"

\* line 691: validatePlannerOutput raises, runAutonomousV3 has no handler
\* and the promise it returned is rejected
PlanThrows ==
  /\ pc' = "threw"
  /\ UNCHANGED <<graph, saved, ledger, replanCount, maxIterations, iteration,
                 contextPack>>

PlanFrom(completions) ==
  /\ pc = "planner"
  /\ \E raw \in completions :
       /\ plannerRaw' = raw
       /\ IF ThrowsTypeError(parseJsonObject(raw))
            THEN PlanThrows
            ELSE \E planner \in {validatePlannerOutput(parseJsonObject(raw), Goal, config)} :
                   Planned(planner)
  /\ UNCHANGED <<relayVars, contextVars,
                 config, nextTask, execution, installReqs, shellCommand,
                 plannerCalls>>

\* line 724: the loop condition fails
LoopExhausted ==
  /\ pc = "select"
  /\ ~(iteration < maxIterations)
  /\ pc' = "finish"
  /\ UNCHANGED <<relayVars, contextVars,
                 config, graph, saved, ledger, replanCount, iteration,
                 maxIterations, nextTask, execution, installReqs,
                 shellCommand, plannerCalls, plannerRaw, contextPack>>

HasPending(nodes) ==
  \E i \in 1..Len(nodes) : nodes[i].status \in {"pending", "in_progress"}

HasFailures(nodes) ==
  \E i \in 1..Len(nodes) : nodes[i].status \in {"blocked", "failed"}

\* TerminalStatus without the hasFailures test of lines 730-733
TerminalStatusIgnoringFailures(nodes) ==
  IF ~HasPending(nodes) THEN "done" ELSE "blocked"

\* lines 728-737
TerminalStatus(nodes) ==
  IF ~HasPending(nodes)
    THEN (IF HasFailures(nodes) THEN "blocked" ELSE "done")
    ELSE "blocked"

\* lines 725-740: nothing is runnable, the terminal status is computed
SelectNone ==
  /\ pc = "select"
  /\ iteration < maxIterations
  /\ getNextRunnableTask(graph.nodes) = 0
  /\ graph' = [graph EXCEPT !.status = TerminalStatus(graph.nodes),
                            !.current_task_id = Null]
  /\ saved' = saveTaskGraph(graph')
  /\ pc' = "finish"
  /\ plannerRaw' = NoCompletion
  /\ UNCHANGED <<relayVars, contextVars,
                 config, ledger, replanCount, iteration, maxIterations,
                 nextTask, execution, installReqs, shellCommand,
                 plannerCalls, contextPack>>

\* Dispatch without the assignment of line 742
DispatchKeepingStatus ==
  /\ pc = "select"
  /\ iteration < maxIterations
  /\ nextTask' = getNextRunnableTask(graph.nodes)
  /\ nextTask' # 0
  /\ graph' = [graph EXCEPT !.current_task_id = graph.nodes[nextTask'].id,
                            !.nodes[nextTask'].status = "in_progress"]
  /\ saved' = saveTaskGraph(graph')
  /\ ledger' = appendRunLedgerEvent(ledger, "task.started",
                                    graph.nodes[nextTask'].id, "ok", NoMessage)
  /\ contextPack' = InPrompt(NewPack("contextPack"))
  /\ pc' = "executor"
  /\ plannerRaw' = NoCompletion
  /\ UNCHANGED <<relayVars, contextVars,
                 config, replanCount, iteration, maxIterations, execution,
                 installReqs, shellCommand, plannerCalls>>

\* lines 725, 742-758: the next runnable node is dispatched to the executor
Dispatch ==
  /\ pc = "select"
  /\ iteration < maxIterations
  /\ nextTask' = getNextRunnableTask(graph.nodes)
  /\ nextTask' # 0
  /\ graph' = [graph EXCEPT !.status = "executing",
                            !.current_task_id = graph.nodes[nextTask'].id,
                            !.nodes[nextTask'].status = "in_progress"]
  /\ saved' = saveTaskGraph(graph')
  /\ ledger' = appendRunLedgerEvent(ledger, "task.started",
                                    graph.nodes[nextTask'].id, "ok", NoMessage)
  /\ contextPack' = InPrompt(NewPack("contextPack"))
  /\ pc' = "executor"
  /\ plannerRaw' = NoCompletion
  /\ UNCHANGED <<relayVars, contextVars,
                 config, replanCount, iteration, maxIterations, execution,
                 installReqs, shellCommand, plannerCalls>>

\* the details text of an escalated install result
EscalationDetail(dependency) ==
  <<"Escalated ">> \o dependency.name \o <<" to INSTALL_REQUIREMENTS.md">>

\* appendInstallRequirement writing its entry twice
appendInstallRequirementTwice(doc, task, dependency) ==
  Append(Append(doc, [dependency |-> dependency.name, blocking_task |-> task.id]),
         [dependency |-> dependency.name, blocking_task |-> task.id])

\* appendInstallRequirement: one entry at the end of the escalation document
appendInstallRequirement(doc, task, dependency) ==
  Append(doc, [dependency |-> dependency.name, blocking_task |-> task.id])

ExecutedStatus(status) ==
  CASE status = "done" -> "ok"
    [] status = "blocked" -> "warning"
    [] OTHER -> "error"

\* "continue" and the end of the loop body: the next iteration begins and
\* the block-scoped nextTask and execution go out of scope
NextIteration ==
  /\ iteration' = iteration + 1
  /\ pc' = "select"
  /\ nextTask' = 0
  /\ execution' = NoRecord
  /\ contextPack' = NoContextPack

\* lines 761-773: the task.executed record
Executed(task, ex) ==
  appendRunLedgerEvent(ledger, "task.executed", task.id, ExecutedStatus(ex.status), NoMessage)

\* Escalate setting the node to failed instead of blocked
EscalateAsFailed(task, ex) ==
  /\ installReqs' = appendInstallRequirement(installReqs, task, ex.missing_dependency)
  /\ ledger' = appendRunLedgerEvent(Executed(task, ex), "dependency.install",
                                    task.id, "warning", NoMessage)
  /\ graph' = [graph EXCEPT
                 !.nodes[nextTask].status = "failed",
                 !.nodes[nextTask].critic_issues =
                    << EscalationDetail(ex.missing_dependency) >>]
  /\ saved' = saveTaskGraph(graph')
  /\ NextIteration
  /\ UNCHANGED shellCommand

\* lines 776, 589-597, 777-790, 800-805: the hint is escalated
Escalate(task, ex) ==
  /\ installReqs' = appendInstallRequirement(installReqs, task, ex.missing_dependency)
  /\ ledger' = appendRunLedgerEvent(Executed(task, ex), "dependency.install",
                                    task.id, "warning", NoMessage)
  /\ graph' = [graph EXCEPT
                 !.nodes[nextTask].status = "blocked",
                 !.nodes[nextTask].critic_issues =
                    << EscalationDetail(ex.missing_dependency) >>]
  /\ saved' = saveTaskGraph(graph')
  /\ NextIteration
  /\ UNCHANGED shellCommand

\* lines 776, 599-611: the install command is spawned
Spawn(task, ex) ==
  /\ shellCommand' = ex.missing_dependency.install_command
  /\ ledger' = Executed(task, ex)
  /\ execution' = ex
  /\ pc' = "install"
  /\ UNCHANGED <<graph, saved, iteration, nextTask, installReqs, contextPack>>

\* AskCritic without the saveTaskGraph call of line 809
AskCriticUnsaved(task, ex) ==
  /\ graph' = [graph EXCEPT !.status = "criticizing"]
  /\ ledger' = Executed(task, ex)
  /\ execution' = ex
  /\ contextPack' = InPrompt(contextPack)
  /\ pc' = "critic"
  /\ UNCHANGED <<saved, iteration, nextTask, installReqs, shellCommand>>

\* lines 808-811: no dependency is missing, the critic is asked
AskCritic(task, ex) ==
  /\ graph' = [graph EXCEPT !.status = "criticizing"]
  /\ saved' = saveTaskGraph(graph')
  /\ ledger' = Executed(task, ex)
  /\ execution' = ex
  /\ contextPack' = InPrompt(contextPack)
  /\ pc' = "critic"
  /\ UNCHANGED <<iteration, nextTask, installReqs, shellCommand>>

\* line 775 and the decision of attemptUserSpaceInstall
ExecuteWith(task, ex) ==
  IF ex.missing_dependency.present /\ ex.missing_dependency.name # <<>>
    THEN IF InstallEscalates(ex.missing_dependency)
           THEN Escalate(task, ex)
           ELSE Spawn(task, ex)
    ELSE AskCritic(task, ex)

\* lines 758-811: the executor's answer is validated; a missing dependency is
\* escalated or its install command is spawned; otherwise the critic is asked
ExecuteFrom(completions) ==
  /\ pc = "executor"
  /\ \E executorRaw \in completions :
       \E ex \in {validateExecutorOutput(parseJsonObject(executorRaw),
                                         graph.nodes[nextTask].id)} :
         ExecuteWith(graph.nodes[nextTask], ex)
  /\ UNCHANGED <<relayVars, contextVars,
                 config, replanCount, maxIterations, plannerCalls, plannerRaw>>

\* lines 612-617, 777-798: the command exits with code 0
Installed(task) ==
  /\ ledger' = appendRunLedgerEvent(ledger, "dependency.install", task.id, "ok", NoMessage)
  /\ graph' = [graph EXCEPT !.nodes[nextTask].retries = task.retries + 1,
                            !.nodes[nextTask].status = "pending",
                            !.nodes[nextTask].critic_issues = <<>>]
  /\ saved' = saveTaskGraph(graph')
  /\ NextIteration

\* lines 619-631, 777-790, 808-811: the command fails, the critic is asked
InstallFailed(task) ==
  /\ ledger' = appendRunLedgerEvent(ledger, "dependency.install", task.id, "error", NoMessage)
  /\ graph' = [graph EXCEPT !.status = "criticizing"]
  /\ saved' = saveTaskGraph(graph')
  /\ contextPack' = InPrompt(contextPack)
  /\ pc' = "critic"
  /\ UNCHANGED <<iteration, nextTask, execution>>

\* the spawned install command ends
InstallDone ==
  /\ pc = "install"
  /\ \E outcome \in {"exit_zero", "exit_nonzero", "spawn_error"} :
       IF outcome = "exit_zero"
         THEN Installed(graph.nodes[nextTask])
         ELSE InstallFailed(graph.nodes[nextTask])
  /\ shellCommand' = Undefined
  /\ UNCHANGED <<relayVars, contextVars,
                 config, replanCount, maxIterations, installReqs, plannerCalls,
                 plannerRaw>>

CriticizedStatus(verdict) ==
  CASE verdict = "pass" -> "ok"
    [] verdict = "block" -> "error"
    [] OTHER -> "warning"

\* ReplanGranted without the budget test of line 849
ReplanGrantedAnyCount(c, ex, cfg, replans) ==
  /\ ~(c.verdict = "pass" /\ ex.status = "done")
  /\ c.verdict = "replan"

\* lines 828, 836, 848-849: the verdict asks for a replan and the budget
\* allows one
ReplanGranted(c, ex, cfg, replans) ==
  /\ ~(c.verdict = "pass" /\ ex.status = "done")
  /\ c.verdict = "replan"
  /\ replans < cfg.replan_budget_per_run

\* ApplyVerdict whose last branch (lines 888-889) leaves the status as it is
ApplyVerdictIssuesOnly(task, ex, c, cfg) ==
  IF c.verdict = "pass" /\ ex.status = "done"
    THEN [task EXCEPT !.status = "done",
                      !.result_summary = ex.result_summary,
                      !.critic_issues = <<>>]
  ELSE IF c.verdict = "retry"
    THEN IF task.retries < cfg.retry_budget_per_node
           THEN [task EXCEPT !.critic_issues = c.issues,
                             !.retries = task.retries + 1,
                             !.status = "pending"]
           ELSE [task EXCEPT !.critic_issues = c.issues,
                             !.status = "failed"]
  ELSE IF c.verdict = "replan"
    THEN [task EXCEPT !.status = "blocked",
                      !.critic_issues =
                         IF Len(c.issues) > 0 THEN c.issues
                         ELSE << Text("Replan budget exhausted.") >>]
  ELSE [task EXCEPT !.critic_issues = c.issues]

\* ApplyVerdict whose last branch (lines 888-889) sets done instead of blocked
ApplyVerdictBlockAsDone(task, ex, c, cfg) ==
  IF c.verdict = "pass" /\ ex.status = "done"
    THEN [task EXCEPT !.status = "done",
                      !.result_summary = ex.result_summary,
                      !.critic_issues = <<>>]
  ELSE IF c.verdict = "retry"
    THEN IF task.retries < cfg.retry_budget_per_node
           THEN [task EXCEPT !.critic_issues = c.issues,
                             !.retries = task.retries + 1,
                             !.status = "pending"]
           ELSE [task EXCEPT !.critic_issues = c.issues,
                             !.status = "failed"]
  ELSE IF c.verdict = "replan"
    THEN [task EXCEPT !.status = "blocked",
                      !.critic_issues =
                         IF Len(c.issues) > 0 THEN c.issues
                         ELSE << Text("Replan budget exhausted.") >>]
  ELSE [task EXCEPT !.status = "done", !.critic_issues = c.issues]

\* ApplyVerdict whose retry branch (lines 838-843) does not test the budget
ApplyVerdictRetryUntested(task, ex, c, cfg) ==
  IF c.verdict = "pass" /\ ex.status = "done"
    THEN [task EXCEPT !.status = "done",
                      !.result_summary = ex.result_summary,
                      !.critic_issues = <<>>]
  ELSE IF c.verdict = "retry"
    THEN [task EXCEPT !.critic_issues = c.issues,
                      !.retries = task.retries + 1,
                      !.status = "pending"]
  ELSE IF c.verdict = "replan"
    THEN [task EXCEPT !.status = "blocked",
                      !.critic_issues =
                         IF Len(c.issues) > 0 THEN c.issues
                         ELSE << Text("Replan budget exhausted.") >>]
  ELSE [task EXCEPT !.status = "blocked", !.critic_issues = c.issues]

\* the node left by the branches of lines 828-890 that end the attempt at
\* once (every branch but a replan within budget)
ApplyVerdict(task, ex, c, cfg) ==
  IF c.verdict = "pass" /\ ex.status = "done"
    THEN [task EXCEPT !.status = "done",
                      !.result_summary = ex.result_summary,
                      !.critic_issues = <<>>]
  ELSE IF c.verdict = "retry"
    THEN IF task.retries < cfg.retry_budget_per_node
           THEN [task EXCEPT !.critic_issues = c.issues,
                             !.retries = task.retries + 1,
                             !.status = "pending"]
           ELSE [task EXCEPT !.critic_issues = c.issues,
                             !.status = "failed"]
  ELSE IF c.verdict = "replan"
    THEN [task EXCEPT !.status = "blocked",
                      !.critic_issues =
                         IF Len(c.issues) > 0 THEN c.issues
                         ELSE << Text("Replan budget exhausted.") >>]
  ELSE [task EXCEPT !.status = "blocked", !.critic_issues = c.issues]

\* lines 850-858: a replan within budget requests the planner again
RequestReplan ==
  /\ replanCount' = replanCount + 1
  /\ graph' = [graph EXCEPT !.status = "replanning"]
  /\ saved' = saveTaskGraph(graph')
  /\ contextPack' = InPrompt(NewPack("replanContext"))
  /\ plannerCalls' = plannerCalls + 1
  /\ pc' = "replanner"
  /\ UNCHANGED <<iteration, nextTask, execution>>

\* lines 828-846, 881-890: the verdict ends the attempt
EndAttempt(task, c) ==
  /\ graph' = [graph EXCEPT !.nodes[nextTask] =
                 ApplyVerdict(task, execution, c, config)]
  /\ saved' = saveTaskGraph(graph')
  /\ NextIteration
  /\ UNCHANGED <<replanCount, plannerCalls>>

\* lines 814-890, given the validated critic record
CriticWith(task, c) ==
  /\ ledger' = appendRunLedgerEvent(ledger, "task.criticized", task.id,
                                    CriticizedStatus(c.verdict), c.verdict)
  /\ IF ReplanGranted(c, execution, config, replanCount)
       THEN RequestReplan
       ELSE EndAttempt(task, c)

\* lines 812-890: the critic's answer is validated and the verdict applied
CriticFrom(completions) ==
  /\ pc = "critic"
  /\ \E criticRaw \in completions :
       \E critic \in {validateCriticOutput(parseJsonObject(criticRaw),
                                           graph.nodes[nextTask].id)} :
         CriticWith(graph.nodes[nextTask], critic)
  /\ UNCHANGED <<relayVars, contextVars,
                 config, maxIterations, installReqs, shellCommand, plannerRaw>>

\* lines 865, 867: the merged list, in which the object nextTask refers to is
\* set to failed if the list still holds it
NodesAfterReplan(merged, orphan) ==
  [k \in 1..Len(merged) |->
     IF merged[k].from = orphan
       THEN [merged[k].node EXCEPT !.status = "failed"]
       ELSE merged[k].node]

\* lines 860-879, given the validated replan
ReplanWith(replanned) ==
  /\ graph' = [graph EXCEPT
                 !.nodes = Apply(LAMBDA merged : NodesAfterReplan(merged, nextTask),
                                 mergeReplanIntoGraph(graph, replanned)),
                 !.summary = replanned.summary]
  /\ saved' = saveTaskGraph(graph')
  /\ ledger' = appendRunLedgerEvent(ledger, "plan.replanned",
                                    graph.nodes[nextTask].id, "warning", NoMessage)

\* lines 859-880: the replan answer is validated and merged
\* lines 860-864: validatePlannerOutput raises on the replan answer
ReplanThrows ==
  /\ pc' = "threw"
  /\ UNCHANGED <<graph, saved, ledger, iteration, nextTask, execution,
                 contextPack>>

ReplanFrom(completions) ==
  /\ pc = "replanner"
  /\ \E replanRaw \in completions :
       IF ThrowsTypeError(parseJsonObject(replanRaw))
         THEN ReplanThrows
         ELSE \E replanned \in {validatePlannerOutput(parseJsonObject(replanRaw), Goal, config)} :
                ReplanWith(replanned) /\ NextIteration
  /\ UNCHANGED <<relayVars, contextVars,
                 config, replanCount, maxIterations, installReqs, shellCommand,
                 plannerCalls, plannerRaw>>

\* ForceBlocked without the run.iteration_budget_exhausted record of
\* lines 897-903
ForceBlockedSilently ==
  /\ graph' = [graph EXCEPT !.status = "blocked", !.current_task_id = Null]
  /\ saved' = saveTaskGraph(graph')
  /\ ledger' = appendRunLedgerEvent(ledger, "run.finished", Null, "warning",
                                    NoMessage)

\* lines 894-904: the loop left the status open
ForceBlocked ==
  /\ graph' = [graph EXCEPT !.status = "blocked", !.current_task_id = Null]
  /\ saved' = saveTaskGraph(graph')
  /\ ledger' = appendRunLedgerEvent(
                 appendRunLedgerEvent(ledger, "run.iteration_budget_exhausted",
                                      Null, "warning", NoMessage),
                 "run.finished", Null, "warning", NoMessage)

\* FinishTerminal with the status of run.finished always ok
FinishTerminalAlwaysOk ==
  /\ ledger' = appendRunLedgerEvent(ledger, "run.finished", Null, "ok", NoMessage)
  /\ UNCHANGED <<graph, saved>>

\* lines 906-912
FinishTerminal ==
  /\ ledger' = appendRunLedgerEvent(ledger, "run.finished", Null,
                 IF graph.status = "done" THEN "ok" ELSE "warning", NoMessage)
  /\ UNCHANGED <<graph, saved>>

\* Finish without the test of line 893
FinishUnforced ==
  /\ pc = "finish"
  /\ FinishTerminal
  /\ pc' = "returned"
  /\ UNCHANGED <<relayVars, contextVars,
                 config, replanCount, iteration, maxIterations, nextTask,
                 execution, installReqs, shellCommand, plannerCalls, plannerRaw,
                 contextPack>>

\* lines 893-917: the status is forced to blocked if the loop left it open,
\* run.finished is appended and the run returns
Finish ==
  /\ pc = "finish"
  /\ IF graph.status \notin {"done", "blocked"}
       THEN ForceBlocked
       ELSE FinishTerminal
  /\ pc' = "returned"
  /\ UNCHANGED <<relayVars, contextVars,
                 config, replanCount, iteration, maxIterations, nextTask,
                 execution, installReqs, shellCommand, plannerCalls, plannerRaw,
                 contextPack>>

(***************************************************************************)
(* A whole run, with a few answers of each kind                            *)
(***************************************************************************)
RunPlannerCompletions ==
  { Garbage,
    Completion("json", PlannerObject(<<
      RawTask(<<"a">>, <<"x">>, JsArray(<<>>)),
      RawTask(<<"b">>, <<"y">>, JsArray(<< <<"a">> >>)) >>)),
    Completion("json", PlannerObject(<<
      RawTask(<<" ", "A">>, <<"z">>, JsArray(<< <<"B">>, <<"a">> >>)),
      RawTask(<<"b">>, <<"y">>, JsArray(<< <<"a">> >>)) >>)),
    Completion("json", PlannerObject(<<
      RawTask(<<"a">>, <<" ">>, JsArray(<<>>)),
      RawTask(<<"b">>, <<"y">>, JsArray(<< <<"a">> >>)) >>)),
    Completion("wrapped", PlannerObject(<<
      RawTask(<<"a">>, <<"x">>, JsArray(<<>>)),
      RawTask(<<" ", "A">>, <<"z">>, JsArray(<< <<"B">>, <<"a">> >>)) >>)),
    Completion("json", PlannerObject(<<
      RawTask(<<"a">>, <<"x">>, JsArray(<<>>)),
      RawTask(NotString, <<"w">>, NotArray) >>)),
    Completion("json", PlannerObject(<<
      RawTask(<<"a">>, <<"x">>, JsArray(<<>>)),
      NullValue >>)) }

RunDependencies ==
  { [kind |-> "null"],
    [kind |-> "object", name |-> <<"j", "q">>,
     install_command |-> <<"n", "p", "m", " ", "i">>, requires_root |-> FALSE],
    [kind |-> "object", name |-> <<"j", "q">>,
     install_command |-> <<"S", "u", "d", "o", " ", "x">>, requires_root |-> FALSE] }

RunExecutorCompletions ==
  {Garbage}
    \cup {Completion("json",
            [kind |-> "object", status |-> "done", result_summary |-> <<" ", "r">>,
             missing_dependency |-> d]) : d \in RunDependencies}

RunCriticCompletions ==
  {Garbage}
    \cup {Completion("json", [kind |-> "object", verdict |-> v,
                              issues |-> JsArray(<< <<" ">>, <<"i", " ">> >>)]) :
            v \in {"pass", "replan", "block"}}

Plan == PlanFrom(RunPlannerCompletions)

Execute == ExecuteFrom(RunExecutorCompletions)

Critic == CriticFrom(RunCriticCompletions)

Replan == ReplanFrom(RunPlannerCompletions)

Next ==
  \/ Start
  \/ Plan
  \/ LoopExhausted
  \/ SelectNone
  \/ Dispatch
  \/ Execute
  \/ InstallDone
  \/ Critic
  \/ Replan
  \/ Finish

Spec == Init /\ [][Next]_vars

(***************************************************************************)
(* The same run under weak fairness: a step that can be taken is taken     *)
(* (every awaited call returns).                                           *)
(***************************************************************************)
FairSpec == Spec /\ WF_vars(Next)

(***************************************************************************)
(* Runs that receive every planner answer of PlannerCompletions            *)
(***************************************************************************)
\* one replan as in DEFAULT_AUTONOMOUS_CONFIG, no retry, every plan length
\* limit
PlanConfigs ==
  [max_tasks_per_plan : 1..MaxTasksPerPlan,
   retry_budget_per_node : {0},
   replan_budget_per_run : {1},
   allow_external_mutation : {FALSE}]

PlanInit == InitWith(PlanConfigs)

\* the executor reports done and a missing dependency with a user-space
\* install command
PlanExecutorCompletions ==
  {Completion("json",
     [kind |-> "object", status |-> "done", result_summary |-> <<" ", "r">>,
      missing_dependency |->
        [kind |-> "object", name |-> <<"j", "q">>,
         install_command |-> <<"n", "p", "m", " ", "i">>,
         requires_root |-> FALSE]])}

PlanCriticCompletions ==
  {Completion("json", [kind |-> "object", verdict |-> v, issues |-> NotArray]) :
     v \in {"pass", "replan"}}

PlanAny == PlanFrom(PlannerCompletions)

PlanExecute == ExecuteFrom(PlanExecutorCompletions)

PlanCritic == CriticFrom(PlanCriticCompletions)

ReplanAny == ReplanFrom(PlannerCompletions)

PlanNext ==
  \/ Start
  \/ PlanAny
  \/ LoopExhausted
  \/ SelectNone
  \/ Dispatch
  \/ PlanExecute
  \/ InstallDone
  \/ PlanCritic
  \/ ReplanAny
  \/ Finish

PlanSpec == PlanInit /\ [][PlanNext]_vars

(***************************************************************************)
(* Runs of the single fallback task that receive every executor and        *)
(* critic answer, under either value of policy.allow_external_mutation     *)
(***************************************************************************)
ExecConfigs ==
  [max_tasks_per_plan : {1},
   retry_budget_per_node : {MaxRetryBudget},
   replan_budget_per_run : {MaxReplanBudget},
   allow_external_mutation : BOOLEAN]

ExecInit == InitWith(ExecConfigs)

ExecPlan == PlanFrom({Garbage})

ExecuteAny == ExecuteFrom(ExecutorCompletions)

CriticAny == CriticFrom(CriticCompletions)

ExecReplan == ReplanFrom({Garbage})

ExecNext ==
  \/ Start
  \/ ExecPlan
  \/ LoopExhausted
  \/ SelectNone
  \/ Dispatch
  \/ ExecuteAny
  \/ InstallDone
  \/ CriticAny
  \/ ExecReplan
  \/ Finish

ExecSpec == ExecInit /\ [][ExecNext]_vars

(***************************************************************************)
(* Properties                                                              *)
(***************************************************************************)
\* the record appended last to the ledger
LastRecord(l) == l.tail[Len(l.tail)]

\* the two records appended last to the ledger
LastTwoRecords(l) == SubSeq(l.tail, Len(l.tail) - 1, Len(l.tail))

\* the state right after the Plan step: the graph is the validated plan
PostPlan == pc = "select" /\ plannerRaw # NoCompletion

Terminal == {"done", "blocked"}

(* C1: a node's status becomes done only in the step that applies a critic *)
(* verdict of pass to an executor result of status done, for the node of   *)
(* that attempt; every other done node of the next state was done before.  *)
C1_DoneOnlyByPassOnDone ==
  [][\A i \in 1..Len(graph'.nodes) :
       graph'.nodes[i].status = "done" =>
         \/ \E j \in 1..Len(graph.nodes) : graph.nodes[j] = graph'.nodes[i]
         \/ /\ pc = "critic"
            /\ i = nextTask
            /\ graph.nodes[i].status = "in_progress"
            /\ graph.nodes[i].id = graph'.nodes[i].id
            /\ execution.status = "done"
            /\ execution.task_id = graph'.nodes[i].id
            /\ LastRecord(ledger').event = "task.criticized"
            /\ LastRecord(ledger').message = "pass"
            /\ LastRecord(ledger').task_id = graph'.nodes[i].id]_vars

\* a node was set to done with the executor's trimmed summary, while another
\* node of the graph is not done
C1_Witness ==
  /\ \E i \in 1..Len(graph.nodes) :
       /\ graph.nodes[i].status = "done"
       /\ graph.nodes[i].result_summary = <<"r">>
  /\ \E i \in 1..Len(graph.nodes) : graph.nodes[i].status \in {"blocked", "failed"}

(* C2: in every state every node's retries counter is at most              *)
(* retry_budget_per_node, and no step other than a replan merge takes the  *)
(* node of the running attempt back to pending once its retries have       *)
(* reached the budget.                                                     *)
C2_RetriesWithinBudget ==
  /\ [](\A i \in 1..Len(graph.nodes) :
          graph.nodes[i].retries <= config.retry_budget_per_node)
  /\ [][pc \notin {"planner", "replanner"} =>
          \A i \in 1..Len(graph.nodes) :
            (/\ graph.nodes[i].status = "in_progress"
             /\ graph.nodes[i].retries >= config.retry_budget_per_node)
              => graph'.nodes[i].status # "pending"]_vars

(* C3: the number of replans never exceeds replan_budget_per_run and the   *)
(* planner is called once for the plan and once per replan; a replan       *)
(* verdict that arrives when the budget is used up calls no planner and    *)
(* sets the node of the attempt to blocked.                                *)
C3_ReplansWithinBudget ==
  /\ [](/\ replanCount <= config.replan_budget_per_run
        /\ (pc # "init" => plannerCalls = replanCount + 1))
  /\ [][(/\ pc = "critic"
         /\ LastRecord(ledger').message = "replan"
         /\ replanCount >= config.replan_budget_per_run)
          => /\ plannerCalls' = plannerCalls
             /\ replanCount' = replanCount
             /\ pc' = "select"
             /\ graph'.nodes[nextTask].id = graph.nodes[nextTask].id
             /\ graph'.nodes[nextTask].status = "blocked"]_vars

\* one replan was performed, a second replan verdict was refused and its
\* node is blocked
C3_Witness ==
  /\ pc = "select"
  /\ config.replan_budget_per_run = 1
  /\ replanCount = 1
  /\ LastRecord(ledger).message = "replan"
  /\ \E i \in 1..Len(graph.nodes) :
       /\ graph.nodes[i].id = LastRecord(ledger).task_id
       /\ graph.nodes[i].status = "blocked"

(* C4: once the plan is made, every id in a node's depends_on is the id of *)
(* a node of the same graph.                                               *)
C4_NoDanglingDependency ==
  pc \notin {"init", "planner"} =>
    \A i \in 1..Len(graph.nodes) :
      \A k \in 1..Len(graph.nodes[i].depends_on) :
        HasNode(graph.nodes, graph.nodes[i].depends_on[k])

\* node a lists b in its depends_on
DependsOn(nodes, a, b) ==
  \E i \in 1..Len(nodes) :
    nodes[i].id = a /\ \E k \in 1..Len(nodes[i].depends_on) : nodes[i].depends_on[k] = b

\* b is reached from a along at most n depends_on edges
RECURSIVE Reaches(_, _, _, _)
Reaches(nodes, a, b, n) ==
  /\ n > 0
  /\ \/ DependsOn(nodes, a, b)
     \/ \E i \in 1..Len(nodes) :
          DependsOn(nodes, a, nodes[i].id) /\ Reaches(nodes, nodes[i].id, b, n - 1)

(* C5: the depends_on relation of the graph built from a validated plan is *)
(* acyclic: no node reaches itself along depends_on edges.                 *)
C5_PlanIsAcyclic ==
  PostPlan =>
    \A i \in 1..Len(graph.nodes) :
      ~Reaches(graph.nodes, graph.nodes[i].id, graph.nodes[i].id, Len(graph.nodes))

\* the raw task list of the planner completion held
HeldRawTasks ==
  IF IsObject(parseJsonObject(plannerRaw))
    THEN RawTasksOf(parseJsonObject(plannerRaw))
    ELSE <<>>

\* the id of the i-th raw task after slugification
SlugOf(rawTasks, i) == sanitizeTaskId(RawIdOf(rawTasks[i], i), i - 1)

SeveralWithSlug(rawTasks, id) ==
  \E i, j \in 1..Len(rawTasks) :
    i # j /\ SlugOf(rawTasks, i) = id /\ SlugOf(rawTasks, j) = id

FirstWithSlug(rawTasks, id) ==
  CHOOSE i \in 1..Len(rawTasks) :
    SlugOf(rawTasks, i) = id /\ \A j \in 1..(i - 1) : SlugOf(rawTasks, j) # id

DistinctIds(nodes) ==
  \A i, j \in 1..Len(nodes) : nodes[i].id = nodes[j].id => i = j

\* every node whose id several raw tasks share carries the title of the
\* first of them
KeptFromFirst(nodes, rawTasks) ==
  \A i \in 1..Len(nodes) :
    SeveralWithSlug(rawTasks, nodes[i].id) =>
      nodes[i].title = TrimItem(rawTasks[FirstWithSlug(rawTasks, nodes[i].id)].title)

IsFallbackPlan(g) ==
  g.summary \in
    {"Fallback single-task plan due to invalid planner output.",
     "Fallback single-task plan because planner returned no valid tasks."}

(* C6 as stated: node ids are pairwise distinct in every state, and right  *)
(* after the Plan step the node kept for an id that several raw tasks      *)
(* share is built from the first of them.                                  *)
C6_FirstOccurrenceKept ==
  /\ DistinctIds(graph.nodes)
  /\ PostPlan => KeptFromFirst(graph.nodes, HeldRawTasks)

(* C6 amended: node ids are pairwise distinct in every state, and right    *)
(* after the Plan step the node kept for an id that several raw tasks      *)
(* share is built from the first of them, unless no task was retained and  *)
(* the graph is the single fallback task built from the goal.              *)
C6_FirstOccurrenceKeptUnlessFallback ==
  /\ DistinctIds(graph.nodes)
  /\ (PostPlan /\ ~IsFallbackPlan(graph)) => KeptFromFirst(graph.nodes, HeldRawTasks)

\* a plan, not the fallback, whose raw tasks "a" and " A" share the id
\* task-a: the node has the first one's title
C6_Witness ==
  /\ PostPlan
  /\ ~IsFallbackPlan(graph)
  /\ \E i \in 1..Len(graph.nodes) :
       /\ SeveralWithSlug(HeldRawTasks, graph.nodes[i].id)
       /\ graph.nodes[i].title = <<"x">>
       /\ HeldRawTasks[2].title = <<"z">>

(* C7: every run reaches the return, and the graph returned and the last   *)
(* snapshot saved have status done or blocked.                             *)
C7_TerminatesDoneOrBlocked ==
  /\ <>(pc = "returned")
  /\ [](pc = "returned" => graph.status \in Terminal /\ saved.status \in Terminal)

\* a run returned after the loop used up its iterations
C7_Witness ==
  /\ pc = "returned"
  /\ iteration = maxIterations
  /\ graph.status = "blocked"
  /\ saved = graph

(* C8: the loop counter never exceeds maxIterations, which the Plan step   *)
(* that builds the graph sets to max(4, N * (retry budget + replan budget  *)
(* + 2)) for the N nodes of the initial plan and no later step changes     *)
(* (the loop is not entered if the Plan step raises); when the loop ends by *)
(* exhausting it, the status becomes blocked and the ledger ends with a    *)
(* run.iteration_budget_exhausted warning followed by run.finished.        *)
C8_IterationBudget ==
  /\ [](iteration <= maxIterations)
  /\ [][/\ (pc = "planner" /\ pc' = "select") =>
             /\ maxIterations' >= 4
             /\ maxIterations' >=
                  Len(graph'.nodes) * (config.retry_budget_per_node
                                         + config.replan_budget_per_run + 2)
             /\ maxIterations' \in
                  {4, Len(graph'.nodes) * (config.retry_budget_per_node
                                             + config.replan_budget_per_run + 2)}
        /\ pc # "planner" => maxIterations' = maxIterations
        /\ (pc = "finish" /\ iteration >= maxIterations) =>
             /\ graph'.status = "blocked"
             /\ saved'.status = "blocked"
             /\ LastTwoRecords(ledger') =
                  << [event |-> "run.iteration_budget_exhausted", task_id |-> Null,
                      status |-> "warning", message |-> NoMessage],
                     [event |-> "run.finished", task_id |-> Null,
                      status |-> "warning", message |-> NoMessage] >>]_vars

\* a run of two nodes used up a budget larger than 4 and was forced to
\* blocked
C8_Witness ==
  /\ pc = "returned"
  /\ maxIterations > 4
  /\ iteration = maxIterations
  /\ LastTwoRecords(ledger)[1].event = "run.iteration_budget_exhausted"
  /\ LastRecord(ledger).event = "run.finished"

(* C9: when the run has returned with graph status done, every node of the *)
(* graph has status done.                                                  *)
C9_DoneMeansAllDone ==
  (pc = "returned" /\ graph.status = "done") =>
    \A i \in 1..Len(graph.nodes) : graph.nodes[i].status = "done"

\* a run of two nodes returned done
C9_Witness ==
  /\ pc = "returned"
  /\ graph.status = "done"
  /\ Len(graph.nodes) = 2

\* the text holds the word w between word boundaries, in any letter case
OccursAsWord(text, w) ==
  \E p \in 1..(Len(text) - Len(w) + 1) :
    /\ toLowerCase(SubSeq(text, p, p + Len(w) - 1)) = w
    /\ (p = 1 \/ text[p - 1] \notin WordChars)
    /\ (p + Len(w) > Len(text) \/ text[p + Len(w)] \notin WordChars)

(* C10: a shell command runs only while the install is awaited; the step   *)
(* that receives the executor's answer starts one only for a hint whose    *)
(* install command is non-empty, whose requires_root flag is false and     *)
(* whose command holds none of the privileged words; it goes on to the     *)
(* critic only without a hint, and in every other case it runs nothing and *)
(* records the escalation; policy.allow_external_mutation is not read.     *)
C10_InstallOnlyUserSpace ==
  /\ [](shellCommand # Undefined => pc = "install")
  /\ [][pc = "executor" =>
          /\ pc' = "install" =>
               /\ shellCommand' = execution'.missing_dependency.install_command
               /\ shellCommand' \notin {Undefined, <<>>}
               /\ ~execution'.missing_dependency.requires_root
               /\ \A w \in RootLevelWords : ~OccursAsWord(shellCommand', w)
          /\ pc' = "critic" => ~execution'.missing_dependency.present
          /\ pc' = "select" =>
               /\ shellCommand' = Undefined
               /\ Len(installReqs') = Len(installReqs) + 1
               /\ LastRecord(ledger').event = "dependency.install"
               /\ LastRecord(ledger').status = "warning"
               /\ graph'.nodes[nextTask].status = "blocked"
          /\ pc' \in {"install", "critic", "select"}]_vars

\* with allow_external_mutation set, the install command of a hint is
\* running, trimmed, after an earlier install succeeded
C10_Witness ==
  /\ config.allow_external_mutation
  /\ pc = "install"
  /\ shellCommand = <<"n", "p", "m", " ", "i">>
  /\ execution.missing_dependency.name = <<"j", "q">>
  /\ graph.nodes[nextTask].retries > 0

(***************************************************************************)
(* Runs of a chain plan: task-a, task-b after task-a, task-c after task-b  *)
(***************************************************************************)
\* the number of tasks a chain plan needs room for
ChainLength == 3

ChainConfigs ==
  [max_tasks_per_plan : {ChainLength},
   retry_budget_per_node : {MaxRetryBudget},
   replan_budget_per_run : {MaxReplanBudget},
   allow_external_mutation : BOOLEAN]

ChainInit == InitWith(ChainConfigs)

ChainPlan ==
  Completion("json", PlannerObject(<<
    RawTask(<<"a">>, <<"x">>, JsArray(<<>>)),
    RawTask(<<"b">>, <<"y">>, JsArray(<< <<"a">> >>)),
    RawTask(<<"c">>, <<"z">>, JsArray(<< <<"b">> >>)) >>))

ChainPlannerCompletions == {Garbage, ChainPlan}

\* hints: none, ffmpeg that requires root (with and without a command), jq
\* with a user-space command
ChainDependencies ==
  { [kind |-> "null"],
    [kind |-> "object", name |-> <<"f", "f", "m", "p", "e", "g">>,
     install_command |-> <<"n", "p", "m", " ", "i">>, requires_root |-> TRUE],
    [kind |-> "object", name |-> <<"f", "f", "m", "p", "e", "g">>,
     install_command |-> NotString, requires_root |-> TRUE],
    [kind |-> "object", name |-> <<"j", "q">>,
     install_command |-> <<"n", "p", "m", " ", "i">>, requires_root |-> FALSE] }

ChainExecutorCompletions ==
  {Garbage}
    \cup {Completion("json",
            [kind |-> "object", status |-> st, result_summary |-> <<" ", "r">>,
             missing_dependency |-> d]) :
            st \in {"done", "blocked"}, d \in ChainDependencies}

\* the executor answers that report a missing dependency with requires_root
ChainRootCompletions ==
  {c \in ChainExecutorCompletions :
     /\ c.form = "json"
     /\ c.value.missing_dependency.kind = "object"
     /\ c.value.missing_dependency.requires_root}

ChainPlanned == PlanFrom(ChainPlannerCompletions)

ChainExecute == ExecuteFrom(ChainExecutorCompletions)

ChainCritic == CriticFrom(RunCriticCompletions)

ChainReplan == ReplanFrom(ChainPlannerCompletions)

ChainNext ==
  \/ Start
  \/ ChainPlanned
  \/ LoopExhausted
  \/ SelectNone
  \/ Dispatch
  \/ ChainExecute
  \/ InstallDone
  \/ ChainCritic
  \/ ChainReplan
  \/ Finish

ChainSpec == ChainInit /\ [][ChainNext]_vars

\* the graph is the chain of the initial plan, never replanned, and task-a
\* and task-b are done without any retry: each was dispatched once, its
\* executor reported done and its critic passed it
ChainRan ==
  /\ replanCount = 0
  /\ Len(graph.nodes) = 3
  /\ graph.nodes[1].id = (TaskPrefix \o <<"a">>) /\ graph.nodes[1].depends_on = <<>>
  /\ graph.nodes[2].id = (TaskPrefix \o <<"b">>)
  /\ graph.nodes[2].depends_on = << (TaskPrefix \o <<"a">>) >>
  /\ graph.nodes[3].id = (TaskPrefix \o <<"c">>)
  /\ graph.nodes[3].depends_on = << (TaskPrefix \o <<"b">>) >>
  /\ \A i \in 1..2 : graph.nodes[i].status = "done" /\ graph.nodes[i].retries = 0

\* task-c of such a run was blocked by an escalated install
ChainEscalated ==
  /\ ChainRan
  /\ graph.nodes[3].status = "blocked"
  /\ \E d \in ChainDependencies :
       /\ d.kind = "object"
       /\ graph.nodes[3].critic_issues = << EscalationDetail(d) >>

\* C11: in a run of the chain plan in which task-a and task-b were done and
\* passed on their first attempt, the step in which the executor of task-c
\* reports a missing dependency that requires root blocks task-c and leaves
\* exactly one entry in the escalation document; from then on the document
\* keeps that one entry, task-a and task-b stay done, task-c stays blocked,
\* nothing is dispatched again, and the run ends with graph status blocked.
C11_ChainEscalatesOnce ==
  /\ [](ChainEscalated =>
          /\ Len(installReqs) = 1
          /\ installReqs[1].blocking_task = (TaskPrefix \o <<"c">>)
          /\ pc \in {"select", "finish", "returned"}
          /\ getNextRunnableTask(graph.nodes) = 0
          /\ pc = "returned" =>
               graph.status = "blocked" /\ saved.status = "blocked")
  /\ [][(/\ ChainRan
         /\ pc = "executor"
         /\ nextTask = 3
         /\ ExecuteFrom(ChainRootCompletions))
        => (ChainEscalated' /\ pc' = "select")]_vars

C11_Witness ==
  /\ ChainEscalated
  /\ pc = "returned"
  /\ graph.status = "blocked"
  /\ installReqs = << [dependency |-> <<"f", "f", "m", "p", "e", "g">>, blocking_task |-> (TaskPrefix \o <<"c">>)] >>

(***************************************************************************)
(* Runs in which the critic answers retry on every call and the executor   *)
(* never reports a missing dependency                                      *)
(***************************************************************************)
RetryConfigs ==
  [max_tasks_per_plan : 1..MaxTasksPerPlan,
   retry_budget_per_node : 0..MaxRetryBudget,
   replan_budget_per_run : 0..MaxReplanBudget,
   allow_external_mutation : BOOLEAN]

RetryInit == InitWith(RetryConfigs)

\* the fallback plan, a plan of two tasks of which the second waits for the
\* first, and two independent tasks
RetryPlannerCompletions ==
  { Garbage,
    Completion("json", PlannerObject(<<
      RawTask(<<"a">>, <<"x">>, JsArray(<<>>)),
      RawTask(<<"b">>, <<"y">>, JsArray(<< <<"a">> >>)) >>)),
    Completion("json", PlannerObject(<<
      RawTask(<<"a">>, <<"x">>, JsArray(<<>>)),
      RawTask(NotString, <<"w">>, NotArray) >>)) }

\* every status, no hint or a hint without a usable name
RetryExecutorCompletions ==
  {Garbage}
    \cup {Completion("json",
            [kind |-> "object", status |-> st, result_summary |-> <<" ", "r">>,
             missing_dependency |-> d]) :
            st \in {"done", "blocked", "failed"},
            d \in {[kind |-> "null"],
                   [kind |-> "object", name |-> <<"N", "o", "n", "e">>,
                    install_command |-> <<"n", "p", "m", " ", "i">>,
                    requires_root |-> FALSE]}}

\* retry, said outright or by an answer that does not parse or names no
\* known verdict
RetryCriticCompletions ==
  {Garbage}
    \cup {Completion("json", [kind |-> "object", verdict |-> v, issues |-> i]) :
            v \in {"retry", "unknown"},
            i \in {NotArray, JsArray(<< <<" ">>, <<"i", " ">> >>)}}

RetryPlan == PlanFrom(RetryPlannerCompletions)

RetryExecute == ExecuteFrom(RetryExecutorCompletions)

RetryCritic == CriticFrom(RetryCriticCompletions)

\* the loop condition never fails, no install is spawned and no replan is
\* requested in these runs (C12_RetryUntilFailed states it), so the steps
\* LoopExhausted, InstallDone and Replan have no part in them
RetryNext ==
  \/ Start
  \/ RetryPlan
  \/ SelectNone
  \/ Dispatch
  \/ RetryExecute
  \/ RetryCritic
  \/ Finish

RetrySpec == RetryInit /\ [][RetryNext]_vars

\* the attempts of a node that have ended: one per retry granted, and the
\* one that made it failed
EndedAttempts(node) == node.retries + (IF node.status = "failed" THEN 1 ELSE 0)

RECURSIVE SumEndedAttempts(_, _)
SumEndedAttempts(nodes, n) ==
  IF n = 0 THEN 0 ELSE SumEndedAttempts(nodes, n - 1) + EndedAttempts(nodes[n])

\* C12: when the critic answers retry on every call and the executor never
\* reports a missing dependency, every loop iteration is one attempt of one
\* node, a node's retries counter counts the attempts of it that ended in a
\* granted retry, and a node becomes failed exactly in the attempt that finds
\* retries = retry_budget_per_node, its (budget + 1)-th; no node ever becomes
\* done or blocked, the loop condition never fails, and the run returns
\* blocked with every node either failed after budget + 1 attempts or never
\* dispatched.  A single-node plan with budget 1 is attempted twice.
C12_RetryUntilFailed ==
  /\ [](pc \notin {"init", "planner"} =>
          /\ pc \notin {"install", "replanner"}
          /\ (pc = "select" => iteration < maxIterations)
          /\ iteration = SumEndedAttempts(graph.nodes, Len(graph.nodes))
          /\ \A i \in 1..Len(graph.nodes) :
               /\ graph.nodes[i].status \in {"pending", "in_progress", "failed"}
               /\ graph.nodes[i].retries <= config.retry_budget_per_node
               /\ graph.nodes[i].status = "failed" =>
                    graph.nodes[i].retries = config.retry_budget_per_node
          /\ pc = "returned" =>
               /\ graph.status = "blocked"
               /\ graph.nodes[1].status = "failed"
               /\ \A i \in 1..Len(graph.nodes) :
                    \/ graph.nodes[i].status = "failed"
                    \/ graph.nodes[i].status = "pending" /\ graph.nodes[i].retries = 0
               /\ (Len(graph.nodes) = 1 =>
                     iteration = config.retry_budget_per_node + 1))
  /\ [][pc = "critic" =>
          /\ pc' = "select"
          /\ iteration' = iteration + 1
          /\ IF graph.nodes[nextTask].retries < config.retry_budget_per_node
               THEN /\ graph'.nodes[nextTask].status = "pending"
                    /\ graph'.nodes[nextTask].retries = graph.nodes[nextTask].retries + 1
               ELSE /\ graph'.nodes[nextTask].status = "failed"
                    /\ graph'.nodes[nextTask].retries = graph.nodes[nextTask].retries]_vars

C12_Witness ==
  /\ pc = "returned"
  /\ config.retry_budget_per_node = 1
  /\ Len(graph.nodes) = 1
  /\ graph.nodes[1].status = "failed"
  /\ graph.nodes[1].retries = 1
  /\ iteration = 2
  /\ graph.status = "blocked"

\* the planner's answer holds no task with a title that is a non-blank text
NoTitledTask(raw) ==
  \/ ~IsObject(raw)
  \/ \A i \in 1..Len(RawTasksOf(raw)) :
       \/ RawTasksOf(raw)[i] = NullValue
       \/ TrimItem(RawTasksOf(raw)[i].title) = <<>>

\* C13: when the planner's answer does not parse, is no JSON object or holds
\* no task with a non-empty title, the Plan step leaves a graph of exactly
\* one node: id task-1, status pending, no dependencies, the goal as title.
C13_FallbackNodeOnUnusablePlan ==
  [][(pc = "planner" /\ NoTitledTask(parseJsonObject(plannerRaw'))) =>
       /\ pc' = "select"
       /\ graph'.nodes =
            << NewNode([id |-> FALLBACK_TASK_ID, title |-> Goal,
                        depends_on |-> <<>>]) >>
       /\ saved'.nodes = graph'.nodes]_vars

(***************************************************************************)
(* The background task queue of relay.ts.  Every function here is async:   *)
(* it runs alone from one await to the next, and other calls run while it  *)
(* waits.  A read of the queue file and the later write of it are two      *)
(* steps.  The run of the engine between them is the specification Spec;   *)
(* the worker sees of it only whether its promise resolves or is rejected. *)
(***************************************************************************)
\* what has happened to a task: the engine runs started for it, whether one
\* of them resolved, the permanent-failure notifications sent, whether
\* enqueueBackgroundTask has written it
HistoryOf(id) ==
  [runs |-> 0, resolved |-> FALSE, notices |-> 0, persisted |-> FALSE]

\* queue.findIndex(predicate): the first index, 0 for -1
FindIndex(queue, P(_)) ==
  IF \E i \in 1..Len(queue) : P(queue[i])
    THEN CHOOSE i \in 1..Len(queue) :
           P(queue[i]) /\ \A j \in 1..(i - 1) : ~P(queue[j])
    ELSE 0

\* Claimable without the status test of lines 544-545
ClaimableWhateverStatus(task) ==
  task.attempts < Max(1, task.max_attempts)

\* lines 543-547: the test of claimNextBackgroundTask
Claimable(task) ==
  /\ task.status \in {"pending", "failed"}
  /\ task.attempts < Max(1, task.max_attempts)

\* lines 550-553: the claimed task
Claimed(task) == [task EXCEPT !.status = "running", !.attempts = task.attempts + 1]

\* the finally block of processNextBackgroundTask: the call returns
Return(c) ==
  /\ calls' = [calls EXCEPT ![c] = NoCall]
  /\ backgroundWorkerRunning' = FALSE

\* the slot a new call takes
FreeSlot(c) == calls[c] = NoCall /\ \A d \in 1..(c - 1) : calls[d] # NoCall

\* TimerTick without the flag test of line 949
TimerTickUnguarded(c) ==
  /\ FreeSlot(c)
  /\ calls' = [calls EXCEPT ![c] = [NoCall EXCEPT !.at = "claim_load"]]
  /\ backgroundWorkerRunning' = TRUE
  /\ UNCHANGED <<backgroundTasksFile, BACKGROUND_TASK_MAX_ATTEMPTS, enqueueing,
                 history>>

\* lines 948-953, 541: the timer calls processNextBackgroundTask; it returns
\* at once if the flag is set, else it sets the flag and starts reading the
\* queue file
TimerTick(c) ==
  /\ FreeSlot(c)
  /\ IF backgroundWorkerRunning
       THEN UNCHANGED <<calls, backgroundWorkerRunning>>
       ELSE /\ calls' = [calls EXCEPT ![c] = [NoCall EXCEPT !.at = "claim_load"]]
            /\ backgroundWorkerRunning' = TRUE
  /\ UNCHANGED <<backgroundTasksFile, BACKGROUND_TASK_MAX_ATTEMPTS, enqueueing,
                 history>>

\* lines 541-554: the queue file is read; without a claimable task the call
\* returns, else the first one is marked running and the write is started
ClaimLoaded(c, queue, index) ==
  IF index = 0
    THEN Return(c)
    ELSE /\ calls' = [calls EXCEPT ![c] =
                        [at |-> "claim_save",
                         task |-> Claimed(queue[index]),
                         queue |-> [queue EXCEPT ![index] = Claimed(queue[index])]]]
         /\ UNCHANGED backgroundWorkerRunning

ClaimLoad(c) ==
  /\ calls[c].at = "claim_load"
  /\ ClaimLoaded(c, backgroundTasksFile, FindIndex(backgroundTasksFile, Claimable))
  /\ UNCHANGED <<backgroundTasksFile, BACKGROUND_TASK_MAX_ATTEMPTS, enqueueing,
                 history>>

\* lines 554, 957: the queue file is written and the engine run starts
ClaimSave(c) ==
  /\ calls[c].at = "claim_save"
  /\ backgroundTasksFile' = calls[c].queue
  /\ calls' = [calls EXCEPT ![c].at = "run", ![c].queue = <<>>]
  /\ history' = [history EXCEPT ![calls[c].task.id].runs = @ + 1]
  /\ UNCHANGED <<backgroundWorkerRunning, BACKGROUND_TASK_MAX_ATTEMPTS, enqueueing>>

\* line 974: willRetry, on the task object the claim returned
WillRetry(task) == task.attempts < task.max_attempts

\* lines 965-971 and 976-982: the update of the stored task
Updated(current, status) == [current EXCEPT !.status = status]

\* what follows updateBackgroundTask: the notification of lines 984-990 if
\* the failure is permanent, else the return
AfterUpdate(c, status) ==
  IF status = "failed" /\ ~WillRetry(calls[c].task)
    THEN /\ calls' = [calls EXCEPT ![c].at = "notify", ![c].queue = <<>>]
         /\ UNCHANGED backgroundWorkerRunning
    ELSE Return(c)

\* lines 531-536: the queue file is read; if the task is not in it nothing is
\* written, else its entry is replaced and the write is started
UpdateLoaded(c, status, queue, index) ==
  IF index = 0
    THEN AfterUpdate(c, status)
    ELSE /\ calls' = [calls EXCEPT
                        ![c].at = IF status = "done" THEN "done_save" ELSE "failed_save",
                        ![c].queue = [queue EXCEPT ![index] = Updated(queue[index], status)]]
         /\ UNCHANGED backgroundWorkerRunning

\* the status processNextBackgroundTask writes after the run
StatusAfter(outcome) == IF outcome = "resolved" THEN "done" ELSE "failed"

\* lines 957-982, 531-535: the promise of runAutonomousV3 resolves and the
\* result is sent, or the promise is rejected, or it resolves and sending the
\* result raises; updateBackgroundTask reads the queue file
RunEnds(c) ==
  /\ calls[c].at = "run"
  /\ \E outcome \in {"resolved", "rejected", "undelivered"} :
       /\ UpdateLoaded(c, StatusAfter(outcome), backgroundTasksFile,
                       FindIndex(backgroundTasksFile,
                                 LAMBDA task : task.id = calls[c].task.id))
       /\ history' = [history EXCEPT
                        ![calls[c].task.id].resolved = @ \/ outcome # "rejected"]
  /\ UNCHANGED <<backgroundTasksFile, BACKGROUND_TASK_MAX_ATTEMPTS, enqueueing>>

\* line 536: the queue file is written
UpdateSave(c) ==
  /\ calls[c].at \in {"done_save", "failed_save"}
  /\ backgroundTasksFile' = calls[c].queue
  /\ AfterUpdate(c, IF calls[c].at = "done_save" THEN "done" ELSE "failed")
  /\ UNCHANGED <<BACKGROUND_TASK_MAX_ATTEMPTS, enqueueing, history>>

\* lines 984-993: the permanent-failure notification is sent
Notify(c) ==
  /\ calls[c].at = "notify"
  /\ history' = [history EXCEPT ![calls[c].task.id].notices = @ + 1]
  /\ Return(c)
  /\ UNCHANGED <<backgroundTasksFile, BACKGROUND_TASK_MAX_ATTEMPTS, enqueueing>>

\* lines 507-519: the task enqueueBackgroundTask builds
NewTask(id) ==
  [id |-> id, status |-> "pending", attempts |-> 0,
   max_attempts |-> BACKGROUND_TASK_MAX_ATTEMPTS]

\* lines 1018-1023, 507-523: a request is routed to the background; the task
\* is built, the queue file is read, the task is pushed and the write is
\* started
EnqueueStart ==
  /\ enqueueing = NoCall
  /\ Len(history) < MaxEnqueued
  /\ enqueueing' = [at |-> "save",
                    task |-> NewTask(Len(history) + 1),
                    queue |-> Append(backgroundTasksFile, NewTask(Len(history) + 1))]
  /\ history' = Append(history, HistoryOf(Len(history) + 1))
  /\ UNCHANGED <<backgroundTasksFile, backgroundWorkerRunning,
                 BACKGROUND_TASK_MAX_ATTEMPTS, calls>>

\* line 523: the queue file is written; enqueueBackgroundTask returns
EnqueueSave ==
  /\ enqueueing.at = "save"
  /\ backgroundTasksFile' = enqueueing.queue
  /\ history' = [history EXCEPT ![enqueueing.task.id].persisted = TRUE]
  /\ enqueueing' = NoCall
  /\ UNCHANGED <<backgroundWorkerRunning, BACKGROUND_TASK_MAX_ATTEMPTS, calls>>

\* lines 37-40: the limit is at least 1 and 2 unless the environment sets it
AttemptLimits == {1, DefaultMaxAttempts}

WorkerInit ==
  /\ EngineInit(IdleConfigs)
  /\ RelayInit(AttemptLimits)
  /\ ContextInit({NoStores})

WorkerNext ==
  \/ \E c \in 1..MaxCalls : TimerTick(c) /\ UNCHANGED <<engineVars, contextVars>>
  \/ \E c \in 1..MaxCalls : ClaimLoad(c) /\ UNCHANGED <<engineVars, contextVars>>
  \/ \E c \in 1..MaxCalls : ClaimSave(c) /\ UNCHANGED <<engineVars, contextVars>>
  \/ \E c \in 1..MaxCalls : RunEnds(c) /\ UNCHANGED <<engineVars, contextVars>>
  \/ \E c \in 1..MaxCalls : UpdateSave(c) /\ UNCHANGED <<engineVars, contextVars>>
  \/ \E c \in 1..MaxCalls : Notify(c) /\ UNCHANGED <<engineVars, contextVars>>
  \/ EnqueueStart /\ UNCHANGED <<engineVars, contextVars>>
  \/ EnqueueSave /\ UNCHANGED <<engineVars, contextVars>>

WorkerSpec == WorkerInit /\ [][WorkerNext]_vars

(***************************************************************************)
(* Claims about the background task queue.                                 *)
(***************************************************************************)
\* the entries of the queue file for task id
StoredTasks(id) ==
  {i \in 1..Len(backgroundTasksFile) : backgroundTasksFile[i].id = id}

\* the engine run of task id has been rejected every time so far
AlwaysRejected(id) == ~history[id].resolved

\* C14: a background task whose engine run fails on every attempt is never
\* run more than max_attempts times, its permanent-failure notification is
\* sent at most once and only after max_attempts runs, when the
\* stored task is failed with attempts = max_attempts, and after the
\* notification it is not claimed again.
C14_FailingTaskRunsMaxAttemptsTimes ==
  /\ [](\A id \in 1..Len(history) :
          AlwaysRejected(id) =>
            /\ history[id].runs <= BACKGROUND_TASK_MAX_ATTEMPTS
            /\ history[id].notices <= 1
            /\ history[id].notices = 1 =>
                 /\ history[id].runs = BACKGROUND_TASK_MAX_ATTEMPTS
                 /\ \A i \in StoredTasks(id) :
                      /\ backgroundTasksFile[i].status = "failed"
                      /\ backgroundTasksFile[i].attempts = BACKGROUND_TASK_MAX_ATTEMPTS)
  /\ [][\A id \in 1..Len(history) :
          history[id].notices >= 1 => history'[id].runs = history[id].runs]_vars

\* the calls of processNextBackgroundTask that are past the flag test
InFlight == {c \in 1..MaxCalls : calls[c].at # "idle"}

\* the calls that are waiting for runAutonomousV3
Running == {c \in 1..MaxCalls : calls[c].at = "run"}

\* C15: under any interleaving of timer ticks at most one call of
\* processNextBackgroundTask is past the flag test, so at most one task is
\* being run through runAutonomousV3 at any time; the flag is set exactly
\* while such a call is in flight.
C15_OneEngineRunAtATime ==
  /\ Cardinality(Running) <= 1
  /\ Cardinality(InFlight) <= 1
  /\ backgroundWorkerRunning <=> InFlight # {}

\* a task is being run while another one waits in the queue file to be claimed
C15_Witness ==
  /\ Running # {}
  /\ backgroundWorkerRunning
  /\ \E i \in 1..Len(backgroundTasksFile) :
       /\ Claimable(backgroundTasksFile[i])
       /\ \A c \in Running : backgroundTasksFile[i].id # calls[c].task.id

\* task id is in the queue file
Stored(id) == StoredTasks(id) # {}

\* the step is the write of enqueueBackgroundTask
EnqueueWrites == enqueueing.at = "save" /\ enqueueing'.at = "idle"

\* C16: a task that enqueueBackgroundTask has persisted stays in the queue
\* file forever, and the write of an enqueue request leaves every entry that
\* is in the file, with the status and attempts the worker wrote, as it is.
C16_PersistedTaskStays ==
  /\ [](\A id \in 1..Len(history) : history[id].persisted => Stored(id))
  /\ [][EnqueueWrites =>
         /\ Len(backgroundTasksFile') >= Len(backgroundTasksFile)
         /\ \A i \in 1..Len(backgroundTasksFile) :
              backgroundTasksFile'[i] = backgroundTasksFile[i]]_vars

(***************************************************************************)
(* Runs in which calls of the completion service fail.  callCodex of       *)
(* relay.ts raises nothing: when the command exits with a code other than  *)
(* 0 it returns the text "Error: " followed by the command's error output, *)
(* and when the command cannot be started a fixed text.                    *)
(***************************************************************************)
\* relay.ts lines 213-216, 225-228: "Error: ..." is no JSON text; it holds an
\* object-shaped region exactly if the error output holds one
callCodexFailure(stderr) ==
  IF stderr.form \in {"json", "wrapped"} /\ IsObject(stderr.value)
    THEN Completion("wrapped", stderr.value)
    ELSE Garbage

\* error outputs: a plain message, a JSON error body, the answer the command
\* had logged before it failed
PlannerStderr ==
  { Garbage,
    Completion("json", [kind |-> "scalar"]),
    Completion("json", [kind |-> "object", tasks |-> NotArray]),
    Completion("wrapped", PlannerObject(<<
      RawTask(<<"a">>, <<"x">>, JsArray(<<>>)),
      RawTask(<<"b">>, <<"y">>, JsArray(<< <<"a">> >>)) >>)),
    Completion("json", PlannerObject(<< NullValue >>)) }

ExecutorStderr ==
  { Garbage,
    Completion("json", [kind |-> "object", status |-> "unknown",
                        result_summary |-> NotString,
                        missing_dependency |-> [kind |-> "null"]]),
    Completion("wrapped", [kind |-> "object", status |-> "done",
                           result_summary |-> <<" ", "r">>,
                           missing_dependency |-> [kind |-> "null"]]) }

CriticStderr ==
  { Garbage,
    Completion("json", [kind |-> "object", verdict |-> "unknown",
                        issues |-> NotArray]),
    Completion("wrapped", [kind |-> "object", verdict |-> "pass",
                           issues |-> JsArray(<<>>)]) }

FailedPlannerCalls == {callCodexFailure(e) : e \in PlannerStderr}

FailedExecutorCalls == {callCodexFailure(e) : e \in ExecutorStderr}

FailedCriticCalls == {callCodexFailure(e) : e \in CriticStderr}

\* the answers of the calls that do not fail
CallPlannerAnswers ==
  { Completion("json", PlannerObject(<<
      RawTask(<<"a">>, <<"x">>, JsArray(<<>>)),
      RawTask(<<"b">>, <<"y">>, JsArray(<< <<"a">> >>)) >>)) }

CallExecutorAnswers ==
  { Completion("json", [kind |-> "object", status |-> "done",
                        result_summary |-> <<" ", "r">>,
                        missing_dependency |-> [kind |-> "null"]]) }

CallCriticAnswers ==
  { Completion("json", [kind |-> "object", verdict |-> v,
                        issues |-> JsArray(<< <<" ">>, <<"i", " ">> >>)]) :
      v \in {"pass", "replan"} }

CallPlan == PlanFrom(CallPlannerAnswers \cup FailedPlannerCalls)

CallExecute == ExecuteFrom(CallExecutorAnswers \cup FailedExecutorCalls)

CallCritic == CriticFrom(CallCriticAnswers \cup FailedCriticCalls)

CallReplan == ReplanFrom(CallPlannerAnswers \cup FailedPlannerCalls)

CallNext ==
  \/ Start
  \/ CallPlan
  \/ LoopExhausted
  \/ SelectNone
  \/ Dispatch
  \/ CallExecute
  \/ CallCritic
  \/ CallReplan
  \/ Finish

\* every await of the run is answered in the end
CallSpec == Init /\ [][CallNext]_vars /\ WF_vars(CallNext)

\* the plan validatePlannerOutput returns for an answer that does not parse
PlanOfNoAnswer == validatePlannerOutput(NullValue, Goal, config)

\* lines 865-867: the nodes after the merge of a validated replan
ReplannedNodes(g, replanned, orphan) ==
  Apply(LAMBDA merged : NodesAfterReplan(merged, orphan),
        mergeReplanIntoGraph(g, replanned))

\* C17: a failed completion-service call is not propagated: the planner,
\* executor, critic and replan phases step exactly as they do for an answer
\* that does not parse (single fallback task, executor status failed, critic
\* verdict retry), and the run reaches run.finished with status done or
\* blocked.
C17_FailedCallTakesFallback ==
  /\ [][PlanFrom(FailedPlannerCalls) =>
          /\ pc' = "select"
          /\ graph'.nodes = PlannedGraph(graph, PlanOfNoAnswer).nodes
          /\ saved'.nodes = graph'.nodes]_vars
  /\ [][ExecuteFrom(FailedExecutorCalls) =>
          /\ pc' = "critic"
          /\ execution'.status = "failed"
          /\ LastRecord(ledger').event = "task.executed"
          /\ LastRecord(ledger').status = "error"]_vars
  /\ [][CriticFrom(FailedCriticCalls) =>
          /\ pc' = "select"
          /\ LastRecord(ledger').event = "task.criticized"
          /\ LastRecord(ledger').message = "retry"]_vars
  /\ [][ReplanFrom(FailedPlannerCalls) =>
          /\ pc' = "select"
          /\ graph'.nodes = ReplannedNodes(graph, PlanOfNoAnswer, nextTask)
          /\ saved'.nodes = graph'.nodes]_vars
  /\ <>(pc = "returned")
  /\ [](pc = "returned" => graph.status \in Terminal /\ saved.status \in Terminal)
(***************************************************************************)
(* Claims about the validated records and the persisted snapshot           *)
(***************************************************************************)
ExecutorStatuses == {"done", "blocked", "failed"}

CriticVerdicts == {"pass", "retry", "replan", "block"}

\* the executor answers that do not parse to an object or whose status is
\* none of the three
UnusableExecutorCompletions ==
  {c \in ExecutorCompletions :
     \/ ~IsObject(parseJsonObject(c))
     \/ parseJsonObject(c).status \notin ExecutorStatuses}

\* the critic answers that do not parse to an object or whose verdict is
\* none of the four
UnusableCriticCompletions ==
  {c \in CriticCompletions :
     \/ ~IsObject(parseJsonObject(c))
     \/ parseJsonObject(c).verdict \notin CriticVerdicts}

\* the ledger's last two records hold a task.executed record of this status
ExecutedAs(l, statuses) ==
  \E k \in 1..Len(LastTwoRecords(l)) :
    /\ LastTwoRecords(l)[k].event = "task.executed"
    /\ LastTwoRecords(l)[k].status \in statuses

\* the status validateExecutorOutput gives the answer raw
ExecutorStatusOf(raw, taskId) ==
  validateExecutorOutput(parseJsonObject(raw), taskId).status

\* the verdict validateCriticOutput gives the answer raw
CriticVerdictOf(raw, taskId) ==
  validateCriticOutput(parseJsonObject(raw), taskId).verdict

\* C18: whatever the executor and the critic answer, the validated executor
\* record has a status in {done, blocked, failed} and the validated critic
\* record a verdict in {pass, retry, replan, block}; an answer that does not
\* parse to an object or carries another status or verdict is validated to
\* status failed and verdict retry, and the attempt makes its transition.
C18_ValidatedRecordsAreDefined ==
  /\ [](pc = "executor" =>
          \A raw \in ExecutorCompletions :
            /\ ExecutorStatusOf(raw, graph.nodes[nextTask].id) \in ExecutorStatuses
            /\ raw \in UnusableExecutorCompletions =>
                 ExecutorStatusOf(raw, graph.nodes[nextTask].id) = "failed")
  /\ [](pc = "critic" =>
          \A raw \in CriticCompletions :
            /\ CriticVerdictOf(raw, graph.nodes[nextTask].id) \in CriticVerdicts
            /\ raw \in UnusableCriticCompletions =>
                 CriticVerdictOf(raw, graph.nodes[nextTask].id) = "retry")
  /\ [](execution # NoRecord => execution.status \in ExecutorStatuses)
  /\ [][pc = "executor" =>
          /\ ExecutedAs(ledger', {"ok", "warning", "error"})
          /\ pc' \in {"critic", "install", "select"}]_vars
  /\ [][pc = "critic" =>
          /\ LastRecord(ledger').event = "task.criticized"
          /\ LastRecord(ledger').message \in CriticVerdicts
          /\ pc' \in {"select", "replanner"}]_vars

\* an executor answer that was validated to failed has been followed by a
\* critic answer that did not parse: the node is on its way to a retry
C18_Witness ==
  /\ pc = "select"
  /\ Len(ledger.tail) >= 2
  /\ LastTwoRecords(ledger)[1].event = "task.executed"
  /\ LastTwoRecords(ledger)[1].status = "error"
  /\ LastRecord(ledger).event = "task.criticized"
  /\ LastRecord(ledger).message = "retry"
  /\ \E i \in 1..Len(graph.nodes) :
       /\ graph.nodes[i].critic_issues = << Text("Critic response was invalid JSON.") >>
       /\ graph.nodes[i].status = "pending"
       /\ graph.nodes[i].retries >= 1

\* where runAutonomousV3 waits for the completion service or for an install
\* command, and where it has returned
AwaitPoints == {"planner", "executor", "install", "critic", "replanner", "returned"}

\* the snapshot holds the progress of the graph
SameProgress(g, s) ==
  /\ s.status = g.status
  /\ s.current_task_id = g.current_task_id
  /\ Len(s.nodes) = Len(g.nodes)
  /\ \A i \in 1..Len(g.nodes) :
       /\ s.nodes[i].id = g.nodes[i].id
       /\ s.nodes[i].status = g.nodes[i].status
       /\ s.nodes[i].retries = g.nodes[i].retries
       /\ s.nodes[i].critic_issues = g.nodes[i].critic_issues
       /\ s.nodes[i].result_summary = g.nodes[i].result_summary

\* C20: whenever the run waits for the completion service or for an install
\* command, and when it has returned, the persisted snapshot equals the graph
\* in memory in status, current_task_id and every node's status, retries,
\* issues and result summary.
C20_SnapshotCurrentAtAwaits ==
  pc \in AwaitPoints => SameProgress(graph, saved)

\* the run waits for the critic of its second task; the first one is done
C20_Witness ==
  /\ pc = "critic"
  /\ saved.status = "criticizing"
  /\ \E i, j \in 1..Len(saved.nodes) :
       /\ saved.nodes[i].status = "done"
       /\ saved.nodes[i].result_summary # Undefined
       /\ saved.nodes[j].status = "in_progress"
       /\ saved.current_task_id = saved.nodes[j].id

(***************************************************************************)
(* The Context Pack Builder: buildContextPack reads the four text stores   *)
(* and the graph snapshot, one after the other, and computes the pack from *)
(* what it read.  A file is held as the list of its lines.                 *)
(***************************************************************************)
\* lines 342-353: the lines of a file, trimmed, without the empty ones
readLines(content) ==
  SelectSeq([i \in 1..Len(content) |-> trim(content[i])], LAMBDA line : line # <<>>)

\* the first index from i on that holds no whitespace
RECURSIVE SkipWhitespace(_, _)
SkipWhitespace(s, i) ==
  IF i <= Len(s) /\ s[i] \in Whitespace THEN SkipWhitespace(s, i + 1) ELSE i

\* \[\s\]\s of the regular expression of line 375, at index open
CheckboxAt(line, open) ==
  /\ open + 3 <= Len(line)
  /\ line[open] = "["
  /\ line[open + 1] \in Whitespace
  /\ line[open + 2] = "]"
  /\ line[open + 3] \in Whitespace

\* the length of the match of /^[-*]\s+\[\s\]\s+/, 0 without a match
OpenTodoMatch(line) ==
  IF /\ Len(line) >= 2
     /\ line[1] \in {"-", "*"}
     /\ line[2] \in Whitespace
     /\ CheckboxAt(line, SkipWhitespace(line, 2))
    THEN SkipWhitespace(line, SkipWhitespace(line, 2) + 3) - 1
    ELSE 0

DropFirst(s, n) == SubSeq(s, n + 1, Len(s))

MapSeq(s, F(_)) == [i \in 1..Len(s) |-> F(s[i])]

\* lines 374-377
ActiveGoals(todoLines) ==
  SliceTo(MapSeq(SelectSeq(todoLines, LAMBDA line : OpenTodoMatch(line) > 0),
                 LAMBDA line : trim(DropFirst(line, OpenTodoMatch(line)))),
          6)

\* lines 379-381
RelevantFacts(learningLines, limit) ==
  SliceTo(SelectSeq(learningLines, LAMBDA line : startsWith(line, <<"-", " ">>)), limit)

\* lines 383-386; the replacement drops ## and the whitespace after it
Procedures(procedureLines, limit) ==
  SliceTo(MapSeq(SelectSeq(procedureLines,
                           LAMBDA line : startsWith(line, <<"#", "#", " ">>)),
                 LAMBDA line : trim(DropFirst(line, SkipWhitespace(line, 3) - 1))),
          limit)

\* lines 311-335: the snapshot, or an empty graph stamped with the clock
loadTaskGraph(file, clock) ==
  IF file.valid THEN file ELSE [valid |-> TRUE, nodes |-> <<>>, updated_at |-> clock]

\* lines 388-391
OpenBlockers(currentGraph) ==
  SliceTo(MapSeq(SelectSeq(currentGraph.nodes, LAMBDA node : node.status = "blocked"),
                 LAMBDA node : node.id \o <<":", " ">> \o node.title),
          5)

\* split(/[^a-z0-9]+/): the maximal runs of a-z0-9, in order
RECURSIVE AlnumRuns(_, _)
AlnumRuns(s, run) ==
  IF s = <<>> THEN RunAsWords(run)
  ELSE IF Head(s) \in LowerAlnum
    THEN AlnumRuns(Tail(s), Append(run, Head(s)))
    ELSE RunAsWords(run) \o AlnumRuns(Tail(s), <<>>)

\* lines 393-397
Keywords(goal) ==
  SliceTo(SelectSeq(AlnumRuns(toLowerCase(goal), <<>>), LAMBDA word : Len(word) >= 4), 12)

includes(s, sub) ==
  \E i \in 1..(Len(s) - Len(sub) + 1) : SubSeq(s, i, i + Len(sub) - 1) = sub

\* lines 355-362
scoreEpisode(line, keywords) ==
  Cardinality({k \in 1..Len(keywords) : includes(toLowerCase(line), keywords[k])})

\* sort((a, b) => b.score - a.score): by falling score, equal scores in the
\* order of the file
RECURSIVE ByFallingScore(_, _)
ByFallingScore(entries, score) ==
  IF score = 0 THEN <<>>
  ELSE SelectSeq(entries, LAMBDA entry : entry.score = score)
         \o ByFallingScore(entries, score - 1)

\* lines 399-404
RelatedEpisodes(runLedgerLines, keywords, limit) ==
  MapSeq(SliceTo(ByFallingScore(MapSeq(runLedgerLines,
                                       LAMBDA line : [line |-> line,
                                                      score |-> scoreEpisode(line, keywords)]),
                                Len(keywords)),
                 limit),
         LAMBDA entry : entry.line)

\* buildContextPack that stamps the pack with the time of the call
buildContextPackStamped(read, goal, cfg, clock) ==
  [active_goals |-> ActiveGoals(readLines(read.todos)),
   relevant_facts |-> RelevantFacts(readLines(read.learnings),
                                    cfg.max_relevant_facts),
   related_episodes |-> RelatedEpisodes(readLines(read.runLedger), Keywords(goal),
                                        cfg.max_related_episodes),
   applicable_procedures |-> Procedures(readLines(read.procedures), cfg.max_procedures),
   open_blockers |-> OpenBlockers(loadTaskGraph(read.graph, clock)) \o << TaskN(clock) >>]

\* lines 363-413, given what the five reads returned and the time of the call
buildContextPack(read, goal, cfg, clock) ==
  [active_goals |-> ActiveGoals(readLines(read.todos)),
   relevant_facts |-> RelevantFacts(readLines(read.learnings),
                                    cfg.max_relevant_facts),
   related_episodes |-> RelatedEpisodes(readLines(read.runLedger), Keywords(goal),
                                        cfg.max_related_episodes),
   applicable_procedures |-> Procedures(readLines(read.procedures), cfg.max_procedures),
   open_blockers |-> OpenBlockers(loadTaskGraph(read.graph, clock))]

(***************************************************************************)
(* Calls of buildContextPack while other writers change the stores         *)
(***************************************************************************)
\* the calls of buildContextPack that are followed
MaxPacks == 2

\* the files buildContextPack reads, in the order of lines 368-372
StoreOrder == <<"todos", "learnings", "procedures", "runLedger", "graph">>

PackGoals ==
  { <<"S", "c", "a", "n", " ", "B", "a", "n", "s", " ", "1">>,
    <<"f", "i", "x", " ", "i", "t">> }

BlockedNode ==
  [id |-> TaskPrefix \o <<"a">>, title |-> <<"x">>, status |-> "blocked"]

DoneNode ==
  [id |-> TaskPrefix \o <<"b">>, title |-> <<"y">>, status |-> "done"]

\* stores with open and closed checklist items, facts and other lines,
\* procedure headings, episodes that hold none, one or two of the keywords
BaseStores ==
  [todos |-> << <<"-", " ", "[", " ", "]", " ", "a">>,
            <<"*", " ", "[", "x", "]", " ", "b">>,
            <<" ", "*", " ", " ", "[", " ", "]", " ", " ", "c", " ">>,
            <<>>,
            <<"-", "[", " ", "]", " ", "d">>,
            <<"-", " ", "[", " ", "]">> >>,
   learnings |-> << <<" ", "-", " ", "f">>,
                <<"g">>,
                <<"-", "h">>,
                <<"-", " ", "i">> >>,
   procedures |-> << <<"#", "#", " ", " ", "p", " ">>,
                 <<"#", " ", "q">>,
                 <<"#", "#", " ", "r">> >>,
   runLedger |-> << <<"x", "s", "c", "a", "n">>,
                <<"n", "o", "n", "e">>,
                <<"a", " ", "B", "A", "N", "S", " ", "s", "c", "a", "n">> >>,
   graph |-> [valid |-> TRUE, nodes |-> <<BlockedNode, DoneNode>>, updated_at |-> 1],
   context_pack |-> [max_relevant_facts |-> 1, max_related_episodes |-> 2,
                     max_procedures |-> 1]]

\* what other writers leave in the stores: a ledger with one more episode,
\* the snapshot saved again, the snapshot of another graph, no readable
\* snapshot
ContextStores ==
  { BaseStores,
    [BaseStores EXCEPT !.runLedger = Append(@, <<"b", "a", "n", "s">>)],
    [BaseStores EXCEPT !.graph.updated_at = 2],
    [BaseStores EXCEPT !.graph.nodes = <<DoneNode>>, !.graph.updated_at = 2],
    [BaseStores EXCEPT !.graph = NoStores.graph] }

NoPack ==
  [active_goals |-> <<>>, relevant_facts |-> <<>>, related_episodes |-> <<>>,
   applicable_procedures |-> <<>>, open_blockers |-> <<>>]

\* a call of buildContextPack: at is the index in StoreOrder of the file it
\* reads next, 0 once it has returned
NewCall(goal, clock, cfg) ==
  [at |-> 1, goal |-> goal, clock |-> clock,
   read |-> [NoStores EXCEPT !.context_pack = cfg], pack |-> NoPack]

ContextSpecInit ==
  /\ EngineInit(IdleConfigs)
  /\ RelayInit({DefaultMaxAttempts})
  /\ ContextInit(ContextStores)

\* line 363: buildContextPack is called, with the configuration of the run
BuildStart ==
  /\ IF packs = <<>> THEN TRUE ELSE packs[Len(packs)].at = 0
  /\ Len(packs) < MaxPacks
  /\ \E goal \in PackGoals :
       packs' = Append(packs, NewCall(goal, now + 1, stores.context_pack))
  /\ now' = now + 1
  /\ UNCHANGED stores

\* lines 368-371: one of the four text stores is read
BuildRead ==
  /\ packs # <<>>
  /\ packs[Len(packs)].at \in 1..4
  /\ packs' = [packs EXCEPT
                 ![Len(packs)].read[StoreOrder[packs[Len(packs)].at]] =
                    stores[StoreOrder[packs[Len(packs)].at]],
                 ![Len(packs)].at = @ + 1]
  /\ UNCHANGED <<stores, now>>

\* the call returns the pack computed from what it read
Built(call) ==
  [call EXCEPT !.at = 0,
               !.pack = buildContextPack(call.read, call.goal,
                                         call.read.context_pack, call.clock)]

\* lines 372-413: the snapshot is read and the pack is computed and returned
BuildReturn ==
  /\ packs # <<>>
  /\ packs[Len(packs)].at = 5
  /\ packs' = [packs EXCEPT
                 ![Len(packs)] = Built([packs[Len(packs)] EXCEPT !.read.graph = stores.graph])]
  /\ UNCHANGED <<stores, now>>

\* a run, the relay or the user writes one of the stores
StoreWritten ==
  /\ stores' \in ContextStores \ {stores}
  /\ UNCHANGED <<packs, now>>

ContextNext ==
  \/ BuildStart /\ UNCHANGED <<engineVars, relayVars>>
  \/ BuildRead /\ UNCHANGED <<engineVars, relayVars>>
  \/ BuildReturn /\ UNCHANGED <<engineVars, relayVars>>
  \/ StoreWritten /\ UNCHANGED <<engineVars, relayVars>>

ContextSpec == ContextSpecInit /\ [][ContextNext]_vars

\* the calls that have returned
Returned == {i \in 1..Len(packs) : packs[i].at = 0}

\* C19: two calls of buildContextPack with the same goal and configuration
\* that read identical contents of the checklist, facts, procedures and
\* ledger stores and the same graph snapshot return identical ContextPacks,
\* and no step of a call writes to a store.
C19_PackIsDeterministic ==
  /\ [](\A i, j \in Returned :
          (packs[i].goal = packs[j].goal /\ packs[i].read = packs[j].read) =>
            packs[i].pack = packs[j].pack)
  /\ [][packs' # packs => stores' = stores]_vars

\* two calls at different times have read the same contents, from which the
\* pack takes goals, facts, episodes, procedures and blockers
C19_Witness ==
  /\ Len(packs) = 2
  /\ Returned = {1, 2}
  /\ packs[1].goal = packs[2].goal
  /\ packs[1].read = packs[2].read
  /\ packs[1].clock # packs[2].clock
  /\ packs[2].pack.active_goals # <<>>
  /\ packs[2].pack.relevant_facts # <<>>
  /\ Len(packs[2].pack.related_episodes) = 2
  /\ packs[2].pack.applicable_procedures # <<>>
  /\ packs[2].pack.open_blockers # <<>>

(***************************************************************************)
(* Several runs over one workspace, with the maintenance timer             *)
(***************************************************************************)
\* entries of the escalation document beyond which no further run is followed
MaxHeldRequirements == 1

\* a later call of runAutonomousV3 on the same workspace (lines 658-665): the
\* locals are new, the snapshot, the ledger and the escalation document are
\* the files the earlier run left
RunAgain ==
  /\ pc \in {"returned", "threw"}
  /\ Len(installReqs) < MaxHeldRequirements
  /\ pc' = "init"
  /\ graph' = DefaultGraph
  /\ replanCount' = 0
  /\ iteration' = 0
  /\ maxIterations' = 0
  /\ nextTask' = 0
  /\ execution' = NoRecord
  /\ contextPack' = NoContextPack
  /\ plannerCalls' = 0
  /\ plannerRaw' = NoCompletion
  /\ UNCHANGED <<relayVars, contextVars,
                 config, saved, ledger, installReqs, shellCommand>>

\* runMaintenanceCycle (lines 972-996), started by the timer at any moment:
\* of what it writes, the memory archive and PROCEDURE_SCORES.json are not
\* part of the state; maintenance.completed is appended to the ledger
runMaintenanceCycle ==
  /\ ledger' = appendRunLedgerEvent(ledger, "maintenance.completed", Null, "ok",
                                    NoMessage)
  /\ UNCHANGED <<relayVars, contextVars,
                 config, pc, graph, saved, replanCount, iteration, maxIterations,
                 nextTask, execution, installReqs, shellCommand, plannerCalls,
                 plannerRaw, contextPack>>

LedgerConfigs ==
  [max_tasks_per_plan : {MaxTasksPerPlan},
   retry_budget_per_node : {MaxRetryBudget},
   replan_budget_per_run : {MaxReplanBudget},
   allow_external_mutation : {FALSE}]

LedgerInit == InitWith(LedgerConfigs)

LedgerPlannerCompletions ==
  { Garbage,
    Completion("json", PlannerObject(<<
      RawTask(<<"a">>, <<"x">>, JsArray(<<>>)),
      RawTask(<<"b">>, <<"y">>, JsArray(<< <<"a">> >>)) >>)) }

LedgerCriticCompletions ==
  {Completion("json", [kind |-> "object", verdict |-> v, issues |-> NotArray]) :
     v \in {"pass", "retry", "replan"}}

LedgerPlan == PlanFrom(LedgerPlannerCompletions)

LedgerCritic == CriticFrom(LedgerCriticCompletions)

LedgerReplan == ReplanFrom(LedgerPlannerCompletions)

LedgerNext ==
  \/ Start
  \/ LedgerPlan
  \/ LoopExhausted
  \/ SelectNone
  \/ Dispatch
  \/ Execute
  \/ InstallDone
  \/ LedgerCritic
  \/ LedgerReplan
  \/ Finish
  \/ RunAgain
  \/ runMaintenanceCycle

LedgerSpec == LedgerInit /\ [][LedgerNext]_vars

\* after is before with the last n records of after appended at its end
Appended(before, after, n) ==
  /\ n <= Len(after.tail)
  /\ after.tail = LastOf(before.tail \o LastOf(after.tail, n), LedgerWindow)
  /\ after.first = IF before.first # <<>> THEN before.first
                   ELSE IF n = 0 THEN <<>>
                   ELSE << LastOf(after.tail, n)[1] >>

\* C21: every step of a run, of a later run and of the maintenance cycle
\* leaves the ledger as it was or appends records at its end (two at most:
\* task.executed with dependency.install where the executor's answer is
\* handled, run.iteration_budget_exhausted with run.finished at the end);
\* the records written earlier, those of earlier runs included, stay as they
\* were.
C21_LedgerOnlyGrows ==
  [][\E n \in {0, 1, 2} :
       /\ n = 2 => pc \in {"executor", "finish"}
       /\ Appended(ledger, ledger', n)]_vars

\* a second run has started on the ledger an earlier run finished
C21_Witness ==
  /\ pc = "planner"
  /\ Len(ledger.tail) >= 2
  /\ ledger.tail[Len(ledger.tail) - 1].event = "run.finished"
  /\ ledger.tail[Len(ledger.tail)].event = "run.started"

(***************************************************************************)
(* Claims on dispatch, install, replan and verdicts                        *)
(***************************************************************************)
\* some node with this id is done
IsDone(nodes, id) ==
  \E k \in 1..Len(nodes) : nodes[k].id = id /\ nodes[k].status = "done"

\* node i is pending and every node it depends on is done
Ready(nodes, i) ==
  /\ nodes[i].status = "pending"
  /\ \A d \in 1..Len(nodes[i].depends_on) : IsDone(nodes, nodes[i].depends_on[d])

\* the step sets node i, and no other node, to in_progress
Dispatches(i) ==
  /\ Len(graph'.nodes) = Len(graph.nodes)
  /\ graph'.nodes[i] = [graph.nodes[i] EXCEPT !.status = "in_progress"]
  /\ \A j \in 1..Len(graph.nodes) : j # i => graph'.nodes[j] = graph.nodes[j]

\* C22: the node a Dispatch sets to in_progress is the first node of the
\* graph, in declaration order, that is pending with all its depends_on done;
\* a node is in_progress only while it is the dispatched one, so no node that
\* is not pending or has a dependency that is not done is dispatched.
C22_DispatchFirstReady ==
  /\ [][pc = "select" /\ pc' = "executor" =>
          /\ nextTask' \in 1..Len(graph.nodes)
          /\ Ready(graph.nodes, nextTask')
          /\ \A j \in 1..(nextTask' - 1) : ~Ready(graph.nodes, j)
          /\ Dispatches(nextTask')]_vars
  /\ [](\A i \in 1..Len(graph.nodes) :
          graph.nodes[i].status = "in_progress" =>
            /\ i = nextTask
            /\ pc \in {"executor", "install", "critic", "replanner", "threw"})
  /\ [][\A i \in 1..Len(graph.nodes) :
          (i > Len(graph'.nodes) \/ graph.nodes[i].status # "in_progress")
            /\ i <= Len(graph'.nodes) /\ graph'.nodes[i].status = "in_progress"
          => pc = "select" /\ pc' = "executor" /\ i = nextTask']_vars

\* the second node of the plan is dispatched once the node it depends on is
\* done
C22_Witness ==
  /\ pc = "executor"
  /\ nextTask >= 2
  /\ graph.nodes[nextTask].depends_on # <<>>
  /\ \A d \in 1..Len(graph.nodes[nextTask].depends_on) :
        IsDone(graph.nodes, graph.nodes[nextTask].depends_on[d])

\* C23: a node whose retries counter is 1 from one successful install, and
\* which no critic verdict has reset so far (the install left its
\* critic_issues empty; every critic record of these runs carries an issue),
\* is set to pending by a retry verdict when retry_budget_per_node is 1 or
\* more: the install has used none of the critic-retry budget.
C23_InstallKeepsRetryBudget ==
  [][/\ pc = "critic"
     /\ pc' = "select"
     /\ LastRecord(ledger').event = "task.criticized"
     /\ LastRecord(ledger').message = "retry"
     /\ graph.nodes[nextTask].retries = 1
     /\ graph.nodes[nextTask].critic_issues = <<>>
     /\ config.retry_budget_per_node >= 1
     => graph'.nodes[nextTask].status = "pending"]_vars

\* some node of the list has this id and status failed
HoldsFailed(nodes, id) ==
  \E k \in 1..Len(nodes) : nodes[k].id = id /\ nodes[k].status = "failed"

\* C24: after the step that merges a replan performed within budget, the
\* graph and the persisted snapshot hold the node whose critic verdict asked
\* for the replan, with status failed.
C24_ReplanTriggerIsFailed ==
  [][pc = "replanner" /\ pc' = "select" =>
       /\ HoldsFailed(graph'.nodes, graph.nodes[nextTask].id)
       /\ HoldsFailed(saved'.nodes, graph.nodes[nextTask].id)]_vars

\* the done nodes of a list, in its order
KeptDone(nodes) == SelectSeq(nodes, LAMBDA n : n.status = "done")

\* the tasks of a plan whose id is not the id of a done node
Added(tasks, nodes) == SelectSeq(tasks, LAMBDA t : ~IsDone(nodes, t.id))

\* a task as a node that was never attempted
AsPending(t) ==
  [id |-> t.id, title |-> t.title, status |-> "pending",
   depends_on |-> t.depends_on, retries |-> 0, critic_issues |-> NoIssues,
   result_summary |-> Undefined]

\* after is before merged with the tasks of a validated plan
MergedFrom(before, after, tasks) ==
  /\ Len(after) = Len(KeptDone(before)) + Len(Added(tasks, before))
  /\ \A k \in 1..Len(KeptDone(before)) : after[k] = KeptDone(before)[k]
  /\ \A k \in 1..Len(Added(tasks, before)) :
       after[Len(KeptDone(before)) + k] = AsPending(Added(tasks, before)[k])

\* the node list runAutonomousV3 holds after merging the plan (lines 865-867)
\* is the merge of the graph's nodes with the plan's tasks
MergesAs(plan) ==
  MergedFrom(graph.nodes,
             NodesAfterReplan(mergeReplanIntoGraph(graph, plan), nextTask),
             plan.tasks)

\* the nodes of after that follow the done nodes of before were never
\* attempted and none has the id of a done node
RestIsNew(before, after) ==
  \A k \in (Len(KeptDone(before)) + 1)..Len(after) :
    /\ after[k] = AsPending(after[k])
    /\ ~IsDone(before, after[k].id)

\* C25: the node list after a replan merge is the list of the nodes that were
\* done before it, unchanged and in their order, followed by the new plan's
\* tasks whose id no done node has, as pending nodes with retries 0; no node
\* that was not done stays, and the snapshot holds the same list.
C25_MergeKeepsDoneOnly ==
  /\ [](pc = "replanner" =>
          \A raw \in PlannerCompletions :
            ~ThrowsTypeError(parseJsonObject(raw)) =>
              \E plan \in {validatePlannerOutput(parseJsonObject(raw), Goal, config)} :
                MergesAs(plan))
  /\ [][pc = "replanner" /\ pc' = "select" =>
          /\ Len(graph'.nodes) >= Len(KeptDone(graph.nodes))
          /\ \A k \in 1..Len(KeptDone(graph.nodes)) :
               graph'.nodes[k] = KeptDone(graph.nodes)[k]
          /\ RestIsNew(graph.nodes, graph'.nodes)
          /\ saved'.nodes = graph'.nodes]_vars

\* a replan was merged into a graph that held a done node: the done node is
\* kept before the new pending nodes
C25_Witness ==
  /\ pc = "select"
  /\ LastRecord(ledger).event = "plan.replanned"
  /\ Len(graph.nodes) >= 2
  /\ graph.nodes[1].status = "done"
  /\ graph.nodes[1].result_summary # Undefined
  /\ graph.nodes[2].status = "pending"

\* the verdict leaves the attempt to the last branch of the loop body
\* (lines 888-890): block, or pass on an executor status that is not done
BlockingVerdict(verdict, status) ==
  \/ verdict = "block"
  \/ verdict = "pass" /\ status \in {"blocked", "failed"}

\* the issues of the validated critic records that carry this verdict
IssuesWith(verdict, taskId) ==
  {validateCriticOutput(parseJsonObject(raw), taskId).issues :
     raw \in {c \in CriticCompletions : CriticVerdictOf(c, taskId) = verdict}}

\* C26: on a validated verdict of block, or of pass while the executor status
\* is blocked or failed, the node becomes blocked with the critic's issues as
\* its critic_issues and is otherwise unchanged (its retries counter too), no
\* replan is requested and the replan counter is unchanged.
C26_BlockingVerdictBlocks ==
  /\ [](pc = "critic" =>
          \A raw \in CriticCompletions :
            \E c \in {validateCriticOutput(parseJsonObject(raw),
                                           graph.nodes[nextTask].id)} :
              BlockingVerdict(c.verdict, execution.status) =>
                /\ ~ReplanGranted(c, execution, config, replanCount)
                /\ ApplyVerdict(graph.nodes[nextTask], execution, c, config) =
                     [graph.nodes[nextTask] EXCEPT !.status = "blocked",
                                                   !.critic_issues = c.issues])
  /\ [][/\ pc = "critic"
        /\ LastRecord(ledger').event = "task.criticized"
        /\ BlockingVerdict(LastRecord(ledger').message, execution.status)
        => /\ pc' = "select"
           /\ replanCount' = replanCount
           /\ Len(graph'.nodes) = Len(graph.nodes)
           /\ \E issues \in IssuesWith(LastRecord(ledger').message,
                                       graph.nodes[nextTask].id) :
                graph'.nodes[nextTask] =
                  [graph.nodes[nextTask] EXCEPT !.status = "blocked",
                                                !.critic_issues = issues]
           /\ saved' = graph']_vars

\* the critic passed an attempt the executor did not report as done: the node
\* is blocked with the critic's issue
C26_Witness ==
  /\ pc = "select"
  /\ LastRecord(ledger).event = "task.criticized"
  /\ LastRecord(ledger).message = "pass"
  /\ graph.nodes[1].status = "blocked"
  /\ graph.nodes[1].critic_issues = << <<"i">> >>

\* the step ends with the dependency.install record of an escalated install
EscalatedNow ==
  /\ ledger' # ledger
  /\ LastRecord(ledger').event = "dependency.install"
  /\ LastRecord(ledger').status = "warning"

\* C27: a dependency install that ends escalated appends one entry to the
\* escalation document, sets the owning node to blocked (not failed) with the
\* escalation detail as its only issue, and goes on to the next selection
\* with no critic call and no task.criticized record after the attempt's
\* task.executed record; the escalation document changes in no other step.
C27_EscalatedBlocksAndSkipsCritic ==
  /\ [][EscalatedNow =>
          /\ pc = "executor"
          /\ pc' = "select"
          /\ LastTwoRecords(ledger')[1].event = "task.executed"
          /\ LastTwoRecords(ledger')[1].task_id = graph.nodes[nextTask].id
          /\ Len(installReqs') = Len(installReqs) + 1
          /\ SubSeq(installReqs', 1, Len(installReqs)) = installReqs
          /\ installReqs'[Len(installReqs')].blocking_task = graph.nodes[nextTask].id
          /\ graph'.nodes[nextTask] =
               [graph.nodes[nextTask] EXCEPT
                  !.status = "blocked",
                  !.critic_issues =
                     << <<"Escalated ">>
                          \o installReqs'[Len(installReqs')].dependency
                          \o <<" to INSTALL_REQUIREMENTS.md">> >>]
          /\ saved' = graph'
          /\ shellCommand' = shellCommand]_vars
  /\ [][installReqs' # installReqs => EscalatedNow]_vars

\* an install was escalated: one entry, the node blocked, the next selection
\* reached straight from the executor's answer
C27_Witness ==
  /\ pc = "select"
  /\ LastRecord(ledger).event = "dependency.install"
  /\ LastRecord(ledger).status = "warning"
  /\ Len(installReqs) = 1
  /\ graph.nodes[1].status = "blocked"

\* the names of RawDependencies that are no text, empty, or a no-dependency
\* sentinel once trimmed
NoDependencyNames ==
  {NotString, <<" ">>, <<"N", "o", "n", "e">>, <<" ", "n", "/", "a", " ">>}

\* the executor answers that name no missing dependency: no object, or an
\* object whose missing_dependency is absent, null, no object, or carries one
\* of NoDependencyNames
HintlessCompletions ==
  {c \in ExecutorCompletions :
     \/ ~IsObject(parseJsonObject(c))
     \/ parseJsonObject(c).missing_dependency.kind # "object"
     \/ parseJsonObject(c).missing_dependency.name \in NoDependencyNames}

\* a name that is neither empty nor a sentinel
NamesDependency(name) ==
  /\ name # <<>>
  /\ name # Undefined
  /\ toLowerCase(name) \notin NO_DEPENDENCY_SENTINELS

\* C28: the record validated from an executor answer whose missing_dependency
\* is absent, null, no object, or named by nothing or by a sentinel carries no
\* dependency hint; an attempt whose record carries none goes straight to the
\* critic, with no shell command run and no escalation entry appended, and
\* the installer is invoked only for a name that is neither.
C28_NoHintNoInstall ==
  /\ [](pc = "executor" =>
          \A raw \in HintlessCompletions :
            ~validateExecutorOutput(parseJsonObject(raw),
                                    graph.nodes[nextTask].id).missing_dependency.present)
  /\ [][pc = "executor" =>
          /\ execution' # NoRecord /\ ~execution'.missing_dependency.present =>
               /\ pc' = "critic"
               /\ LastRecord(ledger').event = "task.executed"
               /\ shellCommand' = Undefined
               /\ installReqs' = installReqs
          /\ pc' = "critic" => ~execution'.missing_dependency.present
          /\ pc' = "install" => NamesDependency(execution'.missing_dependency.name)
          /\ shellCommand' # Undefined => pc' = "install"
          /\ installReqs' # installReqs =>
               NamesDependency(installReqs'[Len(installReqs')].dependency)]_vars

\* the critic is asked about an attempt whose record carries no hint; no
\* command runs and the escalation document is empty
C28_Witness ==
  /\ pc = "critic"
  /\ execution.status = "done"
  /\ ~execution.missing_dependency.present
  /\ LastRecord(ledger).event = "task.executed"
  /\ shellCommand = Undefined
  /\ installReqs = <<>>

\* node i depends, directly or along depends_on edges, on a node that is
\* failed or blocked
StuckBehind(nodes, i) ==
  \E j \in 1..Len(nodes) :
    /\ nodes[j].status \in {"failed", "blocked"}
    /\ Reaches(nodes, nodes[i].id, nodes[j].id, Len(nodes))

RunsStarted == [id \in 1..Len(history) |-> history[id].runs]

\* C30: while a call of processNextBackgroundTask is in flight (the flag is
\* set), a timer tick changes nothing: the queue file, the tasks, the engine
\* runs started and the calls are as before; no call slot is taken, the queue
\* file is written and engine runs are started only by the call that was in
\* flight already (and the file by enqueue requests), and when that call
\* returns no other call is started on behalf of a dropped tick.
C30_OverlappingTickDropped ==
  /\ [][backgroundWorkerRunning =>
          \A c \in 1..MaxCalls : TimerTick(c) => UNCHANGED vars]_vars
  /\ [][backgroundWorkerRunning =>
          /\ \A c \in 1..MaxCalls : calls[c] = NoCall => calls'[c] = NoCall
          /\ backgroundTasksFile' # backgroundTasksFile =>
               \/ EnqueueWrites
               \/ \E c \in 1..MaxCalls :
                    calls[c].at \in {"claim_save", "done_save", "failed_save"}
          /\ [id \in 1..Len(history) |-> history'[id].runs] # RunsStarted =>
               \E c \in 1..MaxCalls : calls[c].at = "claim_save"]_vars
  /\ [][backgroundWorkerRunning /\ ~backgroundWorkerRunning' =>
          \A c \in 1..MaxCalls : calls'[c] = NoCall]_vars

\* a call is waiting for its engine run, a second task waits in the queue
\* file and a call slot is free: the tick that arrives now is dropped
C30_Witness ==
  /\ backgroundWorkerRunning
  /\ calls[1].at = "run"
  /\ calls[2] = NoCall
  /\ \E i \in 1..Len(backgroundTasksFile) :
       /\ backgroundTasksFile[i].status = "pending"
       /\ backgroundTasksFile[i].id # calls[1].task.id

(***************************************************************************)
(* Claims about the claim of a background task and the life of the queue.  *)
(***************************************************************************)
\* a stored task the claim may take: pending or failed, with attempts left
Takeable(task) ==
  /\ task.status \in {"pending", "failed"}
  /\ task.attempts < task.max_attempts

\* the call c has read the queue and chosen its entry i
Chooses(c, i) ==
  /\ Takeable(backgroundTasksFile[i])
  /\ \A j \in 1..(i - 1) : ~Takeable(backgroundTasksFile[j])
  /\ calls'[c].task =
       [backgroundTasksFile[i] EXCEPT
          !.status = "running",
          !.attempts = backgroundTasksFile[i].attempts + 1]
  /\ calls'[c].queue = [backgroundTasksFile EXCEPT ![i] = calls'[c].task]

\* C31: a call of the worker claims at most one task: the first task of the
\* queue file, in order, that is pending or failed with attempts below
\* max_attempts.  The claim writes the queue with that task running and its
\* attempts one higher, and the engine run starts with that write, not before;
\* a call that finds no such task returns, and no engine run starts in any
\* other way.
C31_ClaimTakesFirstTakeable ==
  /\ [][\A c \in 1..MaxCalls :
          /\ (calls[c].at = "claim_load" /\ calls'[c].at = "claim_save") =>
               \E i \in 1..Len(backgroundTasksFile) : Chooses(c, i)
          /\ (calls[c].at = "claim_load" /\ calls'[c].at = "idle") =>
               \A i \in 1..Len(backgroundTasksFile) :
                 ~Takeable(backgroundTasksFile[i])
          /\ (calls[c].at = "claim_save" /\ calls'[c].at = "run") =>
               /\ backgroundTasksFile' = calls[c].queue
               /\ \E i \in 1..Len(backgroundTasksFile') :
                    backgroundTasksFile'[i] = calls[c].task
               /\ calls'[c].task = calls[c].task
               /\ history' = [history EXCEPT ![calls[c].task.id].runs = @ + 1]
          /\ calls[c].at \notin {"idle", "claim_load"} =>
               /\ calls'[c].at # "claim_load"
               /\ calls'[c].at = "claim_save" => calls'[c] = calls[c]]_vars
  /\ [][(\E id \in 1..Len(history) : history'[id].runs # history[id].runs) =>
          \E c \in 1..MaxCalls :
            calls[c].at = "claim_save" /\ calls'[c].at = "run"]_vars
  /\ [](\A c \in 1..MaxCalls :
          calls[c].at \in {"claim_save", "run"} =>
            /\ calls[c].task.status = "running"
            /\ calls[c].task.attempts \in 1..calls[c].task.max_attempts)

\* the second task of the queue runs on its first attempt behind a first
\* task that is done
C31_Witness ==
  /\ Len(backgroundTasksFile) >= 2
  /\ backgroundTasksFile[1].status = "done"
  /\ \E c \in 1..MaxCalls :
       /\ calls[c].at = "run"
       /\ backgroundTasksFile[2] = calls[c].task
       /\ calls[c].task.attempts = 1

\* the timer keeps firing, every started read or write of the queue file
\* completes, every engine run ends and every notification is sent
WorkerFairness ==
  /\ WF_vars(\E c \in 1..MaxCalls : TimerTick(c) /\ UNCHANGED <<engineVars, contextVars>>)
  /\ WF_vars(\E c \in 1..MaxCalls : ClaimLoad(c) /\ UNCHANGED <<engineVars, contextVars>>)
  /\ WF_vars(\E c \in 1..MaxCalls : ClaimSave(c) /\ UNCHANGED <<engineVars, contextVars>>)
  /\ WF_vars(\E c \in 1..MaxCalls : RunEnds(c) /\ UNCHANGED <<engineVars, contextVars>>)
  /\ WF_vars(\E c \in 1..MaxCalls : UpdateSave(c) /\ UNCHANGED <<engineVars, contextVars>>)
  /\ WF_vars(\E c \in 1..MaxCalls : Notify(c) /\ UNCHANGED <<engineVars, contextVars>>)
  /\ WF_vars(EnqueueSave /\ UNCHANGED <<engineVars, contextVars>>)

FairWorkerSpec == WorkerSpec /\ WorkerFairness

\* the task id is stored in a final state: done, or failed with no attempt
\* left and its permanent-failure notification sent
Final(id) ==
  \E i \in StoredTasks(id) :
    \/ backgroundTasksFile[i].status = "done"
    \/ /\ backgroundTasksFile[i].status = "failed"
       /\ backgroundTasksFile[i].attempts = backgroundTasksFile[i].max_attempts
       /\ history[id].notices >= 1

\* C32: when the timer keeps firing and every engine run ends, every task
\* handed to enqueueBackgroundTask is eventually stored done, or stored failed
\* with attempts = max_attempts and its permanent-failure notification sent;
\* and the worker flag, once set, is cleared again.
C32_EveryTaskFinishes ==
  /\ \A id \in 1..MaxEnqueued : (Len(history) >= id) ~> Final(id)
  /\ backgroundWorkerRunning ~> ~backgroundWorkerRunning


\* line 111, 1264: the process stops and is started again: what the calls
\* held in memory is gone, the flag is false again, the queue file is as the
\* last completed write left it, and the timer is started anew
Restart ==
  /\ calls' = [c \in 1..MaxCalls |-> NoCall]
  /\ enqueueing' = NoCall
  /\ backgroundWorkerRunning' = FALSE
  /\ UNCHANGED <<backgroundTasksFile, BACKGROUND_TASK_MAX_ATTEMPTS, history>>

RestartNext ==
  \/ WorkerNext
  \/ Restart /\ UNCHANGED <<engineVars, contextVars>>

\* the worker with restarts of the process, under the fairness of the worker
RestartSpec == WorkerInit /\ [][RestartNext]_vars /\ WorkerFairness

\* the task id is stored as running with attempts left, and no call of the
\* worker holds it
LeftRunning(id) ==
  /\ \E i \in StoredTasks(id) :
       /\ backgroundTasksFile[i].status = "running"
       /\ backgroundTasksFile[i].attempts < backgroundTasksFile[i].max_attempts
  /\ \A c \in 1..MaxCalls : calls[c].task.id # id

\* a call of the worker has claimed the task id
ClaimedAgain(id) ==
  \E c \in 1..MaxCalls :
    calls[c].at \in {"claim_save", "run"} /\ calls[c].task.id = id

\* C33: a task that is stored as running with attempts left while no call of
\* the worker holds it, as after a stop of the process during its engine run,
\* is eventually claimed again.
C33_RunningTaskClaimedAgain ==
  \A id \in 1..MaxEnqueued : LeftRunning(id) ~> ClaimedAgain(id)

(***************************************************************************)
(* Claims about the records of one run in the ledger.                      *)
(***************************************************************************)
\* the records a step has appended: the shortest end of the ledger after the
\* step that, put behind the ledger before it, gives the ledger after it
NewRecords(before, after) ==
  LastOf(after.tail,
         CHOOSE n \in 0..Len(after.tail) :
           /\ Appended(before, after, n)
           /\ \A m \in 0..(n - 1) : ~Appended(before, after, m))

\* the run has not passed the validation of its first plan
BeforePlan == pc \in {"init", "planner"} \/ (pc = "threw" /\ graph.status = "planning")

\* C34: the records of a run start with its run.started, which is written
\* once; run.finished is written once, by the step that returns, as the last
\* record, with status ok exactly if the returned graph is done, and nothing
\* is written after it; plan.created is written before any task.started.
C34_RunRecordsBracketed ==
  /\ [](pc # "init" => /\ ledger.first # <<>>
                        /\ ledger.first[1].event = "run.started")
  /\ [][\A new \in {NewRecords(ledger, ledger')} : \A k \in 1..Len(new) :
          /\ new[k].event = "run.started" => ledger = EmptyLedger /\ k = 1
          /\ new[k].event = "run.finished" =>
               pc = "finish" /\ pc' = "returned" /\ k = Len(new)
          /\ new[k].event = "task.started" => ~BeforePlan
          /\ new[k].event = "plan.created" => pc = "planner" /\ pc' = "select"]_vars
  /\ [][(BeforePlan /\ ~BeforePlan') =>
          LastRecord(ledger').event = "plan.created"]_vars
  /\ [][pc' = "returned" =>
          /\ LastRecord(ledger').event = "run.finished"
          /\ LastRecord(ledger').status = "ok" <=> graph'.status = "done"
          /\ pc = "returned" => ledger' = ledger]_vars

\* a run has returned a graph that is done
C34_Witness ==
  /\ pc = "returned"
  /\ graph.status = "done"
  /\ LastRecord(ledger) =
       [event |-> "run.finished", task_id |-> Null, status |-> "ok",
        message |-> NoMessage]


(***************************************************************************)
(* Claims about the ContextPack given to the completion service.           *)
(***************************************************************************)
\* a completion-service call of the run is awaited
AwaitsCompletion == pc \in {"planner", "executor", "critic", "replanner"}

\* C35: every completion-service call of a run (the initial planner call,
\* each executor, critic and replan planner call) is given a ContextPack that
\* no earlier call of the run was given: the pack is built for it.
C35_EveryCallGetsNewPack ==
  [](AwaitsCompletion => contextPack.calls = 1)

(***************************************************************************)
(* Claims about the status of the graph during a run.                      *)
(***************************************************************************)
\* what a step of the run may do to the status of the graph
StatusMoves(before, after) ==
  /\ after = "planning" => before = "planning"
  /\ after = "criticizing" => before \in {"executing", "criticizing"}
  /\ after = "replanning" => before \in {"criticizing", "replanning"}
  /\ before \in Terminal => after = before

\* C36: the status of the graph, in memory and in the snapshot, is planning
\* when the run starts and is never planning again once it has been something
\* else; it becomes criticizing only from executing and replanning only from
\* criticizing; once it is done or blocked it stays as it is until the run
\* returns.
C36_StatusMovesForward ==
  /\ [][pc = "init" => graph'.status = "planning" /\ saved'.status = "planning"]_vars
  /\ [][pc # "init" => /\ StatusMoves(graph.status, graph'.status)
                        /\ StatusMoves(saved.status, saved'.status)]_vars

\* a run has returned a graph that is done after a replan
C36_Witness ==
  /\ pc = "returned"
  /\ graph.status = "done"
  /\ replanCount >= 1

\* the nodes of a graph that are in progress
InProgress(g) == {i \in 1..Len(g.nodes) : g.nodes[i].status = "in_progress"}

\* C37: the graph, in memory and in its snapshot, never holds more than one
\* node in progress, and holds none when the loop selects the next node,
\* after the loop, and when the run returns.
C37_OneNodeInProgress ==
  [](/\ Cardinality(InProgress(graph)) <= 1
     /\ Cardinality(InProgress(saved)) <= 1
     /\ pc \in {"select", "finish", "returned"} =>
          InProgress(graph) = {} /\ InProgress(saved) = {})

\* the second node of a graph is with the executor and the first is done
C37_Witness ==
  /\ pc = "executor"
  /\ Len(graph.nodes) >= 2
  /\ graph.nodes[1].status = "done"
  /\ InProgress(graph) = {2}

(***************************************************************************)
(* Claims about the attempts of a background task under interleaving.      *)
(***************************************************************************)
\* C38: however enqueue requests and worker calls interleave, the engine
\* runs started for a task never exceed max(1, max_attempts), the attempts
\* stored for a task never decrease, and they equal the number of times the
\* task has been claimed.
C38_AttemptsCountClaims ==
  /\ [](\A id \in 1..Len(history) :
          /\ history[id].runs <= Max(1, BACKGROUND_TASK_MAX_ATTEMPTS)
          /\ \A i \in StoredTasks(id) :
               backgroundTasksFile[i].attempts = history[id].runs)
  /\ [][\A id \in 1..Len(history) :
          \A i \in StoredTasks(id) :
            \A j \in 1..Len(backgroundTasksFile') :
              backgroundTasksFile'[j].id = id =>
                backgroundTasksFile'[j].attempts >= backgroundTasksFile[i].attempts]_vars

(***************************************************************************)
(* Claims about current_task_id and about the status a run returns.        *)
(***************************************************************************)
\* C39: in every snapshot of the graph current_task_id is null or the id of
\* a node of that snapshot, the snapshot written after a replan merge
\* included; in the graph a run returns current_task_id is null.
C39_CurrentTaskIsANode ==
  /\ [](\/ saved.current_task_id = Null
        \/ HasNode(saved.nodes, saved.current_task_id))
  /\ [](pc = "returned" => graph.current_task_id = Null)

\* C40: a run that returns a blocked graph returns at least one node that is
\* not done: a run whose nodes are all done, the last of them by a pass
\* verdict in the last iteration the budget allows, returns done.
C40_BlockedHasUnfinishedNode ==
  [](pc = "returned" /\ graph.status = "blocked" =>
       \E i \in 1..Len(graph.nodes) : graph.nodes[i].status # "done")

====
